---- MODULE Spec2Model ----
(***************************************************************************)
(* Model of the SafeLLM validation pipeline: the Decision factories        *)
(* (decisions.py), the Guard contract with its two base classes            *)
(* (guard.py), Pipeline.validate / Pipeline.avalidate (pipeline.py) and    *)
(* the two stateful guards, RateLimitGuard (guards/rate_limit.py) and      *)
(* SimilarityGuard (guards/similarity.py).  Spec runs the pipeline,        *)
(* SpecRate one RateLimitGuard, SpecSim one SimilarityGuard.               *)
(*                                                                         *)
(* Data is a string, modelled as a sequence of one-character strings.      *)
(* A reason is a record [tag, guard, msg, n]; evidence is a function from  *)
(* keys to values (a Python dict); an audit id is a pair <<kind, n>>.      *)
(***************************************************************************)
EXTENDS Integers, Sequences, FiniteSets, TLC

\* Longest guard list handed to the Pipeline constructor.
MaxGuards == 2

\* max_chars of the LengthGuard instances put in a pipeline.
MaxChars == 2

\* Request payloads the caller submits.
Inputs == {<<"a">>, <<"a", "b">>}

\* on_error values: the declared Literal plus "retry", which the tests pass.
OnErrorValues == {"deny", "allow", "transform", "retry"}

\* Guard implementations a pipeline is built from (see GuardCheck).
GuardClasses ==
    {"pass", "fail", "retry", "upper", "prefix", "redact_allow", "redact_deny",
     "redact_retry", "quiet_upper", "error", "length", "async"}

RECURSIVE SeqsUpTo(_, _)
SeqsUpTo(S, n) ==
    IF n = 0 THEN {<<>>}
    ELSE LET shorter == SeqsUpTo(S, n - 1)
         IN  shorter \cup {Append(s, x) : s \in {t \in shorter : Len(t) = n - 1}, x \in S}

GuardLists == SeqsUpTo(GuardClasses, MaxGuards)

----------------------------------------------------------------------------
(* Values *)

NoneId == <<"none", 0>>
CallerAuditId == <<"ctx", 0>>
Uuid4(n) == <<"uuid", n>>

NoEvidence == [k \in {} |-> 0]

\* dict.update(other): keys of other overwrite, other keys are kept.
Update(d, other) ==
    [k \in (DOMAIN d) \cup (DOMAIN other) |->
        IF k \in DOMAIN other THEN other[k] ELSE d[k]]

Reason(tag, guard, msg, n) == [tag |-> tag, guard |-> guard, msg |-> msg, n |-> n]

----------------------------------------------------------------------------
(* decisions.py: the four factory constructors.  fresh is the uuid4 the    *)
(* constructor would generate when no audit id is passed.                  *)

DecisionAllow(output, audit_id, evidence, fresh) ==
    [allowed |-> TRUE, action |-> "allow", reasons |-> <<>>,
     evidence |-> evidence, output |-> output,
     audit_id |-> IF audit_id = NoneId THEN fresh ELSE audit_id]

DecisionDeny(output, reasons, audit_id, evidence, fresh) ==
    [allowed |-> FALSE, action |-> "deny", reasons |-> reasons,
     evidence |-> evidence, output |-> output,
     audit_id |-> IF audit_id = NoneId THEN fresh ELSE audit_id]

DecisionTransform(original, transformed, reasons, audit_id, evidence, fresh) ==
    [allowed |-> TRUE, action |-> "transform", reasons |-> reasons,
     evidence |-> evidence, output |-> transformed,
     audit_id |-> IF audit_id = NoneId THEN fresh ELSE audit_id]

\* Mutant: a retry Decision that reports itself as allowed.
DecisionRetry_Allowed(output, reasons, audit_id, evidence, fresh) ==
    [allowed |-> TRUE, action |-> "retry", reasons |-> reasons,
     evidence |-> evidence, output |-> output,
     audit_id |-> IF audit_id = NoneId THEN fresh ELSE audit_id]

DecisionRetry(output, reasons, audit_id, evidence, fresh) ==
    [allowed |-> FALSE, action |-> "retry", reasons |-> reasons,
     evidence |-> evidence, output |-> output,
     audit_id |-> IF audit_id = NoneId THEN fresh ELSE audit_id]

\* Placeholder in a call record whose guard raised instead of returning.
NoDecision ==
    [allowed |-> FALSE, action |-> "none", reasons |-> <<>>,
     evidence |-> NoEvidence, output |-> <<>>, audit_id |-> NoneId]

----------------------------------------------------------------------------
(* Guards.  A guard's check either returns a Decision or raises; Outcome   *)
(* records which, and whether AsyncGuard.check got as far as asyncio.run.  *)

Returned(dec) ==
    [raised |-> FALSE, exc_type |-> "", exc |-> "", dec |-> dec, asyncio_run |-> FALSE]

Raised(type, msg, ran) ==
    [raised |-> TRUE, exc_type |-> type, exc |-> msg, dec |-> NoDecision, asyncio_run |-> ran]

\* str.upper() on the alphabet used here.
UpperChar(c) ==
    CASE c = "a" -> "A"
      [] c = "b" -> "B"
      [] c = "x" -> "X"
      [] OTHER   -> c

Upper(s) == [k \in 1..Len(s) |-> UpperChar(s[k])]

\* lambda x: f"x_{x}"
Prefix(s) == <<"x", "_">> \o s

\* MockPassGuard.check
MockPassGuard(name, data, fresh) ==
    Returned(DecisionAllow(data, NoneId,
                           [guard |-> name, data_length |-> Len(data)], fresh))

\* MockFailGuard.check
MockFailGuard(name, data, fresh) ==
    Returned(DecisionDeny(data, <<Reason("rejected", name, "", 0)>>, NoneId,
                          [guard |-> name], fresh))

\* MockRetryGuard.check
MockRetryGuard(name, data, fresh) ==
    Returned(DecisionRetry(data, <<Reason("Please retry", name, "", 0)>>, NoneId,
                           [guard |-> name], fresh))

\* MockTransformGuard.check with transform_func = str.upper
MockUpperGuard(name, data, fresh) ==
    Returned(DecisionTransform(data, Upper(data),
                               <<Reason("Transformed by", name, "", 0)>>, NoneId,
                               [guard |-> name, original |-> data], fresh))

\* MockTransformGuard.check with transform_func = lambda x: f"x_{x}"
MockPrefixGuard(name, data, fresh) ==
    Returned(DecisionTransform(data, Prefix(data),
                               <<Reason("Transformed by", name, "", 0)>>, NoneId,
                               [guard |-> name, original |-> data], fresh))

\* MockErrorGuard.check
MockErrorGuard(name, data) ==
    Raised("ValueError", "Mock error for testing", FALSE)

\* A guard of the Guard protocol whose allow Decision carries a rewritten
\* copy of the data (as HtmlSanitizerGuard and the schema guards do).
RedactAllowGuard(name, data, audit_id, fresh) ==
    Returned(DecisionAllow(Upper(data), audit_id, [guard |-> name], fresh))

\* Guards of the Guard protocol whose deny / retry Decision carries a
\* rewritten copy of the data instead of the data it was given.
RedactDenyGuard(name, data, audit_id, fresh) ==
    Returned(DecisionDeny(Upper(data), <<Reason("redacted", name, "", 0)>>, audit_id,
                          [guard |-> name], fresh))

RedactRetryGuard(name, data, audit_id, fresh) ==
    Returned(DecisionRetry(Prefix(data), <<Reason("redacted", name, "", 0)>>, audit_id,
                           [guard |-> name], fresh))

\* A guard of the Guard protocol whose transform Decision gives no reason.
QuietUpperGuard(name, data, audit_id, fresh) ==
    Returned(DecisionTransform(data, Upper(data), <<>>, audit_id,
                               [guard |-> name], fresh))

\* LengthGuard(max_chars=MaxChars).check
LengthGuard(name, data, audit_id, fresh) ==
    LET char_count == Len(data)
        reasons    == IF char_count > MaxChars
                      THEN <<Reason("Text too long", name, "", char_count)>>
                      ELSE <<>>
        evidence   == [char_count |-> char_count]
    IN  IF reasons # <<>>
        THEN Returned(DecisionDeny(data, reasons, audit_id, evidence, fresh))
        ELSE Returned(DecisionAllow(data, audit_id, evidence, fresh))

\* The acheck of the AsyncGuard subclass used here: it allows.
AsyncGuardAcheck(name, data, audit_id, fresh) ==
    Returned(DecisionAllow(data, audit_id, [guard |-> name], fresh))

\* asyncio.get_running_loop(): returns inside a running loop, raises outside.
GetRunningLoop(loop_running) ==
    IF loop_running
    THEN Returned(NoDecision)
    ELSE Raised("RuntimeError", "no running event loop", FALSE)

\* asyncio.run(coro): refuses to start inside a running loop.
AsyncioRun(loop_running, result) ==
    IF loop_running
    THEN Raised("RuntimeError",
                "asyncio.run() cannot be called from a running event loop", TRUE)
    ELSE [result EXCEPT !.asyncio_run = TRUE]

DescriptiveError == "Cannot call sync check() on async guard. Use acheck() instead."

\* AsyncGuard.check: the try block raises in both cases (get_running_loop
\* outside a loop, the explicit raise inside one); the except clause
\* catches whatever is a RuntimeError; then asyncio.run is called.
AsyncGuardCheck(name, data, audit_id, loop_running, fresh) ==
    LET probe   == GetRunningLoop(loop_running)
        inTry   == IF probe.raised
                   THEN probe
                   ELSE Raised("RuntimeError", DescriptiveError, FALSE)
        swallow == inTry.exc_type = "RuntimeError"
    IN  IF swallow
        THEN AsyncioRun(loop_running,
                        AsyncGuardAcheck(name, data, audit_id, fresh))
        ELSE inTry

\* guard.check(data, ctx) for the guard class cls; name is the guard's name.
GuardCheck(cls, name, data, audit_id, loop_running, fresh) ==
    CASE cls = "pass"     -> MockPassGuard(name, data, fresh)
      [] cls = "fail"     -> MockFailGuard(name, data, fresh)
      [] cls = "retry"    -> MockRetryGuard(name, data, fresh)
      [] cls = "upper"    -> MockUpperGuard(name, data, fresh)
      [] cls = "prefix"   -> MockPrefixGuard(name, data, fresh)
      [] cls = "redact_allow" -> RedactAllowGuard(name, data, audit_id, fresh)
      [] cls = "redact_deny"  -> RedactDenyGuard(name, data, audit_id, fresh)
      [] cls = "redact_retry" -> RedactRetryGuard(name, data, audit_id, fresh)
      [] cls = "quiet_upper"  -> QuietUpperGuard(name, data, audit_id, fresh)
      [] cls = "error"    -> MockErrorGuard(name, data)
      [] cls = "length"   -> LengthGuard(name, data, audit_id, fresh)
      [] cls = "async"    -> AsyncGuardCheck(name, data, audit_id, loop_running, fresh)

\* BaseGuard.acheck: return self.check(data, ctx).  A coroutine always runs
\* inside a running loop.  AsyncGuard subclasses supply acheck themselves.
GuardAcheck(cls, name, data, audit_id, fresh) ==
    IF cls = "async"
    THEN AsyncGuardAcheck(name, data, audit_id, fresh)
    ELSE GuardCheck(cls, name, data, audit_id, TRUE, fresh)

----------------------------------------------------------------------------
(* State *)

VARIABLES
    constructed,   \* "none" | "ok" | "error": outcome of Pipeline.__init__
    steps,         \* self.steps: the guard classes, in order
    fail_fast,     \* self.fail_fast
    on_error,      \* self.on_error
    req_data,      \* the payload the caller submits
    req_ctx,       \* the audit id of the ctx argument, NoneId when ctx is omitted
    validate,      \* activation frame of Pipeline.validate
    avalidate,     \* activation frame of Pipeline.avalidate
    uuid_count     \* number of uuid4 values generated so far

\* The two stateful guards, each exercised on its own (SpecRate, SpecSim).
VARIABLES
    rate_limit,    \* the RateLimitGuard object, NotConstructed before __init__
    clock,         \* the last value time.time() returned
    rate_log,      \* history: one record per RateLimitGuard.check call
    race,          \* two unsynchronized threads inside RateLimitGuard.check
    sim_guard,     \* the SimilarityGuard object, NotConstructed before __init__
    sim_log        \* history: one record per SimilarityGuard.check call

pipelineVars == <<constructed, steps, fail_fast, on_error, req_data, req_ctx,
                  validate, avalidate, uuid_count>>

rateVars == <<rate_limit, clock, rate_log, race>>

simVars == <<sim_guard, sim_log>>

vars == <<pipelineVars, rateVars, simVars>>

NotConstructed == [constructed |-> FALSE]

\* The threads that call check on one shared RateLimitGuard.
RaceThreads == {1, 2}

\* No thread is inside check.  pc: "idle", or "append" (the occupancy test
\* passed, the timestamp is not appended yet); pend: the call's rate_key and
\* current_time; overlapped: some call ran its occupancy test while another
\* call for the same key stood between its test and its append; allowed: the
\* allowed checks; calls: the number of calls started.
RaceIdle ==
    [pc |-> [t \in RaceThreads |-> "idle"],
     pend |-> [t \in RaceThreads |-> [rate_key |-> "", current_time |-> 0]],
     overlapped |-> FALSE,
     allowed |-> <<>>,
     calls |-> 0]

\* No stateful guard has been built and the clock has not been read.
GuardsIdle ==
    /\ rate_limit = NotConstructed
    /\ clock = 0
    /\ rate_log = <<>>
    /\ race = RaceIdle
    /\ sim_guard = NotConstructed
    /\ sim_log = <<>>

\* A frame before its method is called.  pc: "idle", "loop" (about to run
\* steps[i]), "synth" (loop exhausted), "returned", "raised".
IdleFrame ==
    [pc |-> "idle", i |-> 0, data |-> <<>>, audit_id |-> NoneId,
     loop_running |-> FALSE, current_data |-> <<>>, all_reasons |-> <<>>,
     all_evidence |-> NoEvidence, transformations |-> 0, calls |-> <<>>,
     early |-> FALSE, result |-> NoDecision, exc |-> ""]

\* Entry of validate/avalidate up to the for statement.
EnterFrame(data, audit_id, loop_running) ==
    [IdleFrame EXCEPT !.pc = "loop", !.i = 1, !.data = data,
                      !.audit_id = audit_id, !.loop_running = loop_running,
                      !.current_data = data]

\* Mutant: a handler that catches ValueError only.
IsException_ValueErrorOnly(exc_type) == exc_type = "ValueError"

\* except Exception: the exception classes that derive from Exception.
IsException(exc_type) == exc_type \in {"ValueError", "RuntimeError"}

\* Mutant: a fault reason that leaves out the guard's name.
FaultReason_NoGuard(name, msg) == Reason("failed", 0, msg, 0)

\* f"Guard {guard.name} failed: {str(e)}"
FaultReason(name, msg) == Reason("failed", name, msg, 0)

\* f"Applied {transformations} transformation(s)"
AppliedReason(n) == Reason("Applied transformation(s)", 0, "", n)

\* Mutant: a loop that steps over the guard after the current one.
Continue_Skip(f) ==
    [f EXCEPT !.i = @ + 2,
              !.pc = IF f.i + 2 > Len(steps) THEN "synth" ELSE "loop"]

\* Next iteration of the for loop, or fall out of it after the last guard.
Continue(f) ==
    [f EXCEPT !.i = @ + 1,
              !.pc = IF f.i + 1 > Len(steps) THEN "synth" ELSE "loop"]

\* Mutant: a transform that is counted but whose output is dropped.
Transformed_KeepData(f, decision) ==
    [f EXCEPT !.transformations = @ + 1]

\* current_data = decision.output; transformations += 1
Transformed(f, decision) ==
    [f EXCEPT !.current_data = decision.output, !.transformations = @ + 1]

\* Mutant: the return statement is missing, the loop goes on.
ReturnEarly_Missing(f, decision) == Continue(f)

ReturnEarly(f, decision) ==
    [f EXCEPT !.pc = "returned", !.early = TRUE, !.result = decision]

ReturnFinal(f, decision) ==
    [f EXCEPT !.pc = "returned", !.result = decision]

Propagate(f, out) ==
    [f EXCEPT !.pc = "raised", !.exc = out.exc]

\* History, not program state: the guard calls made so far, each with the
\* guard's index, the data it was handed and what came back.
LogCall(f, out) ==
    [f EXCEPT !.calls = Append(@, [idx |-> f.i, arg |-> f.current_data, out |-> out])]

\* Pipeline.validate, one iteration of the for loop (lines 66-133).
ValidateGuard(f, fresh) ==
    LET out == GuardCheck(steps[f.i], f.i, f.current_data, f.audit_id,
                          f.loop_running, fresh)
        g   == LogCall(f, out)
    IN  IF ~out.raised
        THEN LET decision     == out.dec
                 all_reasons  == f.all_reasons \o decision.reasons
                 all_evidence == Update(f.all_evidence, decision.evidence)
                 acc == [g EXCEPT !.all_reasons = all_reasons,
                                  !.all_evidence = all_evidence]
             IN  CASE decision.action = "deny" ->
                        IF fail_fast
                        THEN ReturnEarly(acc, DecisionDeny(f.current_data, all_reasons,
                                                           f.audit_id, all_evidence, fresh))
                        ELSE Continue(acc)
                   [] decision.action = "transform" ->
                        Continue(Transformed(acc, decision))
                   [] decision.action = "retry" ->
                        IF fail_fast
                        THEN ReturnEarly(acc, DecisionRetry(f.current_data, all_reasons,
                                                            f.audit_id, all_evidence, fresh))
                        ELSE Continue(acc)
                   [] OTHER -> Continue(acc)
        ELSE IF IsException(out.exc_type)
        THEN LET all_reasons == Append(f.all_reasons, FaultReason(f.i, out.exc))
                 acc == [g EXCEPT !.all_reasons = all_reasons]
             IN  IF on_error = "deny" \/ fail_fast
                 THEN ReturnEarly(acc, DecisionDeny(f.current_data, all_reasons,
                                                    f.audit_id, f.all_evidence, fresh))
                 ELSE Continue(acc)
        ELSE Propagate(g, out)

\* Mutant: a final transform always carries the summary reason alone.
ValidateFinal_SummaryOnly(f, fresh) ==
    IF f.transformations > 0
    THEN ReturnFinal(f, DecisionTransform(f.data, f.current_data,
                                          <<AppliedReason(f.transformations)>>,
                                          f.audit_id, f.all_evidence, fresh))
    ELSE ReturnFinal(f, DecisionAllow(f.current_data, f.audit_id,
                                      f.all_evidence, fresh))

\* Mutant: the final allow keeps the reasons that were collected.
ValidateFinal_KeepReasons(f, fresh) ==
    IF f.transformations > 0
    THEN ReturnFinal(f, DecisionTransform(f.data, f.current_data,
                                          IF f.all_reasons # <<>> THEN f.all_reasons
                                          ELSE <<AppliedReason(f.transformations)>>,
                                          f.audit_id, f.all_evidence, fresh))
    ELSE ReturnFinal(f, [DecisionAllow(f.current_data, f.audit_id,
                                       f.all_evidence, fresh)
                            EXCEPT !.reasons = f.all_reasons])

\* Mutant: the synthesis reports a transform without looking at the count.
ValidateFinal_AlwaysTransform(f, fresh) ==
    ReturnFinal(f, DecisionTransform(f.data, f.current_data,
                                     <<AppliedReason(f.transformations)>>,
                                     f.audit_id, f.all_evidence, fresh))

\* Mutant: the synthesis denies when reasons were collected.
ValidateFinal_Strict(f, fresh) ==
    IF f.all_reasons # <<>> /\ f.transformations = 0
    THEN ReturnFinal(f, DecisionDeny(f.current_data, f.all_reasons,
                                     f.audit_id, f.all_evidence, fresh))
    ELSE ReturnFinal(f, DecisionTransform(f.data, f.current_data, f.all_reasons,
                                          f.audit_id, f.all_evidence, fresh))

\* Pipeline.validate, the synthesis after the loop (lines 135-168).
ValidateFinal(f, fresh) ==
    IF f.all_reasons # <<>>
    THEN IF f.transformations > 0
         THEN ReturnFinal(f, DecisionTransform(f.data, f.current_data, f.all_reasons,
                                               f.audit_id, f.all_evidence, fresh))
         ELSE ReturnFinal(f, DecisionAllow(f.current_data, f.audit_id,
                                           f.all_evidence, fresh))
    ELSE IF f.transformations > 0
         THEN ReturnFinal(f, DecisionTransform(f.data, f.current_data,
                                               <<AppliedReason(f.transformations)>>,
                                               f.audit_id, f.all_evidence, fresh))
         ELSE ReturnFinal(f, DecisionAllow(f.current_data, f.audit_id,
                                           f.all_evidence, fresh))

\* Pipeline.avalidate, one iteration of the for loop (lines 190-257).
AvalidateGuard(f, fresh) ==
    LET out == GuardAcheck(steps[f.i], f.i, f.current_data, f.audit_id, fresh)
        g   == LogCall(f, out)
    IN  IF ~out.raised
        THEN LET decision     == out.dec
                 all_reasons  == f.all_reasons \o decision.reasons
                 all_evidence == Update(f.all_evidence, decision.evidence)
                 acc == [g EXCEPT !.all_reasons = all_reasons,
                                  !.all_evidence = all_evidence]
             IN  CASE decision.action = "deny" ->
                        IF fail_fast
                        THEN ReturnEarly(acc, DecisionDeny(f.current_data, all_reasons,
                                                           f.audit_id, all_evidence, fresh))
                        ELSE Continue(acc)
                   [] decision.action = "transform" ->
                        Continue(Transformed(acc, decision))
                   [] decision.action = "retry" ->
                        IF fail_fast
                        THEN ReturnEarly(acc, DecisionRetry(f.current_data, all_reasons,
                                                            f.audit_id, all_evidence, fresh))
                        ELSE Continue(acc)
                   [] OTHER -> Continue(acc)
        ELSE IF IsException(out.exc_type)
        THEN LET all_reasons == Append(f.all_reasons, FaultReason(f.i, out.exc))
                 acc == [g EXCEPT !.all_reasons = all_reasons]
             IN  IF on_error = "deny" \/ fail_fast
                 THEN ReturnEarly(acc, DecisionDeny(f.current_data, all_reasons,
                                                    f.audit_id, f.all_evidence, fresh))
                 ELSE Continue(acc)
        ELSE Propagate(g, out)

\* Mutant: the asynchronous synthesis drops the collected reasons.
AvalidateFinal_DropReasons(f, fresh) ==
    IF f.transformations > 0
    THEN ReturnFinal(f, DecisionTransform(f.data, f.current_data,
                                          <<AppliedReason(f.transformations)>>,
                                          f.audit_id, f.all_evidence, fresh))
    ELSE ReturnFinal(f, DecisionAllow(f.current_data, f.audit_id,
                                      f.all_evidence, fresh))

\* Pipeline.avalidate, the synthesis after the loop (lines 259-292).
AvalidateFinal(f, fresh) ==
    IF f.all_reasons # <<>>
    THEN IF f.transformations > 0
         THEN ReturnFinal(f, DecisionTransform(f.data, f.current_data, f.all_reasons,
                                               f.audit_id, f.all_evidence, fresh))
         ELSE ReturnFinal(f, DecisionAllow(f.current_data, f.audit_id,
                                           f.all_evidence, fresh))
    ELSE IF f.transformations > 0
         THEN ReturnFinal(f, DecisionTransform(f.data, f.current_data,
                                               <<AppliedReason(f.transformations)>>,
                                               f.audit_id, f.all_evidence, fresh))
         ELSE ReturnFinal(f, DecisionAllow(f.current_data, f.audit_id,
                                           f.all_evidence, fresh))

----------------------------------------------------------------------------
(* Actions *)

Init ==
    /\ constructed = "none"
    /\ steps = <<>>
    /\ fail_fast = TRUE
    /\ on_error = "deny"
    /\ req_data \in Inputs
    /\ req_ctx \in {NoneId, CallerAuditId}
    /\ validate = IdleFrame
    /\ avalidate = IdleFrame
    /\ uuid_count = 0
    /\ GuardsIdle

\* Mutant: a constructor without the "if not self.steps" check.
PipelineInit_NoCheck ==
    /\ constructed = "none"
    /\ \E s \in GuardLists, ff \in BOOLEAN, oe \in OnErrorValues :
          /\ steps' = s
          /\ fail_fast' = ff
          /\ on_error' = oe
          /\ constructed' = "ok"
    /\ UNCHANGED <<req_data, req_ctx, validate, avalidate, uuid_count>>
    /\ UNCHANGED <<rateVars, simVars>>

\* Pipeline.__init__: the fields are assigned, then an empty list is rejected.
PipelineInit ==
    /\ constructed = "none"
    /\ \E s \in GuardLists, ff \in BOOLEAN, oe \in OnErrorValues :
          /\ steps' = s
          /\ fail_fast' = ff
          /\ on_error' = oe
          /\ constructed' = IF s = <<>> THEN "error" ELSE "ok"
    /\ UNCHANGED <<req_data, req_ctx, validate, avalidate, uuid_count>>
    /\ UNCHANGED <<rateVars, simVars>>

Finished(f) == f.pc \in {"idle", "returned", "raised"}

\* The audit id of the Context the method works with: Context() draws a
\* uuid4 when the caller passes no ctx.
CtxAuditId == IF req_ctx = NoneId THEN Uuid4(uuid_count + 1) ELSE req_ctx

\* The caller invokes pipeline.validate(data, ctx=ctx), from plain
\* synchronous code or from inside a running event loop.
CallValidate ==
    /\ constructed = "ok"
    /\ validate.pc = "idle"
    /\ Finished(avalidate)
    /\ \E loop_running \in BOOLEAN :
          validate' = EnterFrame(req_data, CtxAuditId, loop_running)
    /\ uuid_count' = IF req_ctx = NoneId THEN uuid_count + 1 ELSE uuid_count
    /\ UNCHANGED <<constructed, steps, fail_fast, on_error, req_data, req_ctx, avalidate>>
    /\ UNCHANGED <<rateVars, simVars>>

ValidateStep ==
    /\ validate.pc = "loop"
    /\ validate' = ValidateGuard(validate, Uuid4(uuid_count + 1))
    /\ uuid_count' = uuid_count + 1
    /\ UNCHANGED <<constructed, steps, fail_fast, on_error, req_data, req_ctx, avalidate>>
    /\ UNCHANGED <<rateVars, simVars>>

ValidateReturn ==
    /\ validate.pc = "synth"
    /\ validate' = ValidateFinal(validate, Uuid4(uuid_count + 1))
    /\ UNCHANGED <<constructed, steps, fail_fast, on_error, req_data, req_ctx,
                   avalidate, uuid_count>>
    /\ UNCHANGED <<rateVars, simVars>>

\* The caller awaits pipeline.avalidate(data, ctx=ctx).
CallAvalidate ==
    /\ constructed = "ok"
    /\ avalidate.pc = "idle"
    /\ Finished(validate)
    /\ avalidate' = EnterFrame(req_data, CtxAuditId, TRUE)
    /\ uuid_count' = IF req_ctx = NoneId THEN uuid_count + 1 ELSE uuid_count
    /\ UNCHANGED <<constructed, steps, fail_fast, on_error, req_data, req_ctx, validate>>
    /\ UNCHANGED <<rateVars, simVars>>

AvalidateStep ==
    /\ avalidate.pc = "loop"
    /\ avalidate' = AvalidateGuard(avalidate, Uuid4(uuid_count + 1))
    /\ uuid_count' = uuid_count + 1
    /\ UNCHANGED <<constructed, steps, fail_fast, on_error, req_data, req_ctx, validate>>
    /\ UNCHANGED <<rateVars, simVars>>

AvalidateReturn ==
    /\ avalidate.pc = "synth"
    /\ avalidate' = AvalidateFinal(avalidate, Uuid4(uuid_count + 1))
    /\ UNCHANGED <<constructed, steps, fail_fast, on_error, req_data, req_ctx,
                   validate, uuid_count>>
    /\ UNCHANGED <<rateVars, simVars>>

Next ==
    \/ PipelineInit
    \/ CallValidate
    \/ ValidateStep
    \/ ValidateReturn
    \/ CallAvalidate
    \/ AvalidateStep
    \/ AvalidateReturn

Spec == Init /\ [][Next]_vars

----------------------------------------------------------------------------
(* guards/rate_limit.py: RateLimitGuard.  Time is counted in whole seconds; *)
(* request_history is the defaultdict of deques (a key without an entry    *)
(* reads as the empty deque), blocked_until the dict of block expiries.    *)

\* Largest value the clock takes.
MaxTime == 4

\* Number of check calls made on one RateLimitGuard.
MaxChecks == 4

\* Constructor arguments tried: max_requests, window_seconds, block_duration.
MaxRequestsValues == {0, 1, 2}
WindowSecondsValues == {1, 2}
BlockDurationValues == {1, 2, 3}
KeyExtractors == {"user_role"}

\* ctx.user_role is None unless the caller sets it.
NoRole == "None"

\* The Context objects handed to check.
Context(user_role) ==
    [audit_id |-> CallerAuditId, user_role |-> user_role, model |-> "None",
     metadata |-> [k \in {} |-> ""]]

Contexts == {Context(NoRole), Context("admin")}

\* RateLimitGuard._get_rate_key
get_rate_key(key_extractor, ctx) ==
    CASE key_extractor = "audit_id" -> ctx.audit_id
      [] key_extractor = "user_role" ->
            IF ctx.user_role = NoRole THEN "anonymous" ELSE ctx.user_role
      [] key_extractor \in DOMAIN ctx.metadata -> ctx.metadata[key_extractor]
      [] OTHER -> "default"

RateKeys == {get_rate_key(ke, ctx) : ke \in KeyExtractors, ctx \in Contexts}

\* RateLimitGuard.__init__: the arguments are stored as given.
RateLimitGuard(max_requests, window_seconds, key_extractor, block_duration) ==
    [constructed |-> TRUE,
     max_requests |-> max_requests,
     window_seconds |-> window_seconds,
     key_extractor |-> key_extractor,
     block_duration |-> block_duration,
     request_history |-> [k \in RateKeys |-> <<>>],
     blocked_until |-> [k \in {} |-> 0]]

\* del d[key]
DictDel(d, key) == [k \in (DOMAIN d) \ {key} |-> d[k]]

\* d[key] = value
DictSet(d, key, value) ==
    [k \in (DOMAIN d) \cup {key} |-> IF k = key THEN value ELSE d[k]]

\* Mutant: the block is not consulted at all.
StillBlocked_Never(self, rate_key, current_time) == FALSE

\* Mutant: the block still denies at the instant it expires.
StillBlocked_Inclusive(self, rate_key, current_time) ==
    /\ rate_key \in DOMAIN self.blocked_until
    /\ current_time <= self.blocked_until[rate_key]

\* "if rate_key in self.blocked_until: if current_time < self.blocked_until[rate_key]"
StillBlocked(self, rate_key, current_time) ==
    /\ rate_key \in DOMAIN self.blocked_until
    /\ current_time < self.blocked_until[rate_key]

\* Mutant: a timestamp equal to the cutoff is dropped as well.
Expired_Inclusive(request_time, cutoff_time) == request_time <= cutoff_time

\* Mutant: old timestamps are never dropped.
Expired_Never(request_time, cutoff_time) == FALSE

\* "request_times[0] < cutoff_time"
Expired(request_time, cutoff_time) == request_time < cutoff_time

\* "while request_times and request_times[0] < cutoff_time: popleft()"
RECURSIVE TrimOld(_, _)
TrimOld(request_times, cutoff_time) ==
    IF request_times # <<>> /\ Expired(request_times[1], cutoff_time)
    THEN TrimOld(Tail(request_times), cutoff_time)
    ELSE request_times

\* Mutant: the quota is never enforced.
LimitReached_Never(self, request_times) == FALSE

\* Mutant: the quota test is off by one.
LimitReached_OffByOne(self, request_times) ==
    Len(request_times) > self.max_requests

\* "if len(request_times) >= self.max_requests"
LimitReached(self, request_times) ==
    Len(request_times) >= self.max_requests

\* Mutant: the still-blocked evidence also reports the window occupancy.
BlockedEvidence_WithOccupancy(self, rate_key, current_time) ==
    [k \in {"rate_key", "blocked_until", "remaining_seconds", "requests_in_window"} |->
        CASE k = "rate_key" -> rate_key
          [] k = "blocked_until" -> self.blocked_until[rate_key]
          [] k = "remaining_seconds" -> self.blocked_until[rate_key] - current_time
          [] OTHER -> Len(self.request_history[rate_key])]

\* The evidence of the deny returned while the key is still blocked.
BlockedEvidence(self, rate_key, current_time) ==
    [k \in {"rate_key", "blocked_until", "remaining_seconds"} |->
        CASE k = "rate_key" -> rate_key
          [] k = "blocked_until" -> self.blocked_until[rate_key]
          [] OTHER -> self.blocked_until[rate_key] - current_time]

\* The evidence of the deny that sets the block.
ExceededEvidence(self, rate_key, request_times) ==
    [k \in {"rate_key", "requests_in_window", "max_requests", "window_seconds",
            "blocked_for_seconds"} |->
        CASE k = "rate_key" -> rate_key
          [] k = "requests_in_window" -> Len(request_times)
          [] k = "max_requests" -> self.max_requests
          [] k = "window_seconds" -> self.window_seconds
          [] OTHER -> self.block_duration]

\* The evidence of an allow; request_times already holds the new timestamp.
AllowedEvidence(self, rate_key, request_times) ==
    [k \in {"rate_key", "requests_in_window", "requests_remaining"} |->
        CASE k = "rate_key" -> rate_key
          [] k = "requests_in_window" -> Len(request_times)
          [] OTHER -> self.max_requests - Len(request_times)]

\* Mutant: the window is trimmed before the block is looked at, so a check
\* denied by the block changes the stored timestamps.
RateLimitGuardCheck_TrimFirst(self, data, ctx, current_time) ==
    LET rate_key == get_rate_key(self.key_extractor, ctx)
        cutoff_time == current_time - self.window_seconds
        request_times == TrimOld(self.request_history[rate_key], cutoff_time)
        trimmed == [self EXCEPT !.request_history[rate_key] = request_times]
        unblocked == DictDel(self.blocked_until, rate_key)
    IN
    IF StillBlocked(self, rate_key, current_time)
    THEN [self |-> trimmed,
          dec  |-> DecisionDeny(data,
                       <<Reason("rate_blocked", "rate_limit", rate_key,
                                self.blocked_until[rate_key] - current_time)>>,
                       ctx.audit_id,
                       BlockedEvidence(self, rate_key, current_time), NoneId)]
    ELSE IF LimitReached(self, request_times)
    THEN [self |-> [trimmed EXCEPT
                      !.blocked_until =
                          DictSet(unblocked, rate_key, current_time + self.block_duration)],
          dec  |-> DecisionDeny(data,
                       <<Reason("rate_exceeded", "rate_limit", rate_key,
                                self.max_requests)>>,
                       ctx.audit_id,
                       ExceededEvidence(self, rate_key, request_times), NoneId)]
    ELSE [self |-> [trimmed EXCEPT
                      !.request_history[rate_key] = Append(request_times, current_time),
                      !.blocked_until = unblocked],
          dec  |-> DecisionAllow(data, ctx.audit_id,
                      AllowedEvidence(self, rate_key, Append(request_times, current_time)),
                      NoneId)]

\* RateLimitGuard.check: the guard after the call and the Decision returned.
RateLimitGuardCheck(self, data, ctx, current_time) ==
    LET rate_key == get_rate_key(self.key_extractor, ctx)
    IN
    IF StillBlocked(self, rate_key, current_time)
    THEN [self |-> self,
          dec  |-> DecisionDeny(data,
                       <<Reason("rate_blocked", "rate_limit", rate_key,
                                self.blocked_until[rate_key] - current_time)>>,
                       ctx.audit_id,
                       BlockedEvidence(self, rate_key, current_time), NoneId)]
    ELSE
    LET unblocked == DictDel(self.blocked_until, rate_key)
        cutoff_time == current_time - self.window_seconds
        request_times == TrimOld(self.request_history[rate_key], cutoff_time)
    IN
    IF LimitReached(self, request_times)
    THEN [self |-> [self EXCEPT
                      !.request_history[rate_key] = request_times,
                      !.blocked_until =
                          DictSet(unblocked, rate_key, current_time + self.block_duration)],
          dec  |-> DecisionDeny(data,
                       <<Reason("rate_exceeded", "rate_limit", rate_key,
                                self.max_requests)>>,
                       ctx.audit_id,
                       ExceededEvidence(self, rate_key, request_times), NoneId)]
    ELSE
    LET appended == Append(request_times, current_time)
    IN  [self |-> [self EXCEPT
                      !.request_history[rate_key] = appended,
                      !.blocked_until = unblocked],
         dec  |-> DecisionAllow(data, ctx.audit_id,
                      AllowedEvidence(self, rate_key, appended), NoneId)]

\* The pipeline is not used while a stateful guard is exercised on its own.
PipelineIdle ==
    /\ constructed = "none"
    /\ steps = <<>>
    /\ fail_fast = TRUE
    /\ on_error = "deny"
    /\ req_data = <<"a">>
    /\ req_ctx = NoneId
    /\ validate = IdleFrame
    /\ avalidate = IdleFrame
    /\ uuid_count = 0

RateInit == PipelineIdle /\ GuardsIdle

\* guard = RateLimitGuard(max_requests=..., window_seconds=..., block_duration=...)
NewRateLimitGuard ==
    /\ rate_limit = NotConstructed
    /\ \E mr \in MaxRequestsValues, ws \in WindowSecondsValues,
          ke \in KeyExtractors, bd \in BlockDurationValues :
          rate_limit' = RateLimitGuard(mr, ws, ke, bd)
    /\ UNCHANGED <<clock, rate_log, race, pipelineVars, simVars>>

\* guard.check(data, ctx): time.time() returns a value not below the last one.
CallRateCheck ==
    /\ rate_limit # NotConstructed
    /\ Len(rate_log) < MaxChecks
    /\ \E ctx \in Contexts, current_time \in clock..MaxTime :
          LET r == RateLimitGuardCheck(rate_limit, req_data, ctx, current_time)
          IN  /\ rate_limit' = r.self
              /\ clock' = current_time
              /\ rate_log' = Append(rate_log,
                     [key |-> get_rate_key(rate_limit.key_extractor, ctx),
                      time |-> current_time,
                      before |-> rate_limit,
                      after |-> r.self,
                      dec |-> r.dec])
    /\ UNCHANGED <<race, pipelineVars, simVars>>

RateNext ==
    \/ NewRateLimitGuard
    \/ CallRateCheck

SpecRate == RateInit /\ [][RateNext]_vars

----------------------------------------------------------------------------
(* RateLimitGuard.check called from two threads without a lock.  A call is *)
(* split where the claim splits it: everything up to the occupancy test    *)
(* "len(request_times) >= self.max_requests", then the append.  Both       *)
(* threads work on the same deque object, so an append is never lost.      *)

\* check up to and including the occupancy test: the guard afterwards, and
\* "blocked", "exceeded" (both return a deny) or "pass".
CheckUntilTest(self, rate_key, current_time) ==
    IF StillBlocked(self, rate_key, current_time)
    THEN [self |-> self, outcome |-> "blocked"]
    ELSE
    LET unblocked == DictDel(self.blocked_until, rate_key)
        cutoff_time == current_time - self.window_seconds
        request_times == TrimOld(self.request_history[rate_key], cutoff_time)
    IN  IF LimitReached(self, request_times)
        THEN [self |-> [self EXCEPT
                          !.request_history[rate_key] = request_times,
                          !.blocked_until =
                              DictSet(unblocked, rate_key,
                                      current_time + self.block_duration)],
              outcome |-> "exceeded"]
        ELSE [self |-> [self EXCEPT
                          !.request_history[rate_key] = request_times,
                          !.blocked_until = unblocked],
              outcome |-> "pass"]

\* "request_times.append(current_time)"
CheckAppend(self, rate_key, current_time) ==
    [self EXCEPT !.request_history[rate_key] = Append(@, current_time)]

\* Thread t enters check and runs it up to the occupancy test.
RaceTest(t) ==
    /\ rate_limit # NotConstructed
    /\ race.pc[t] = "idle"
    /\ race.calls < MaxChecks
    /\ \E ctx \in Contexts, current_time \in clock..MaxTime :
          LET rate_key == get_rate_key(rate_limit.key_extractor, ctx)
              r == CheckUntilTest(rate_limit, rate_key, current_time)
              overlaps == \E u \in RaceThreads \ {t} :
                             /\ race.pc[u] = "append"
                             /\ race.pend[u].rate_key = rate_key
          IN  /\ rate_limit' = r.self
              /\ clock' = current_time
              /\ race' = [race EXCEPT
                            !.pc[t] = IF r.outcome = "pass" THEN "append" ELSE "idle",
                            !.pend[t] = IF r.outcome = "pass"
                                        THEN [rate_key |-> rate_key,
                                              current_time |-> current_time]
                                        ELSE @,
                            !.overlapped = @ \/ overlaps,
                            !.calls = @ + 1]
    /\ UNCHANGED <<rate_log, pipelineVars, simVars>>

\* Thread t appends its timestamp and returns the allow.
RaceAppend(t) ==
    /\ race.pc[t] = "append"
    /\ rate_limit' = CheckAppend(rate_limit, race.pend[t].rate_key,
                                 race.pend[t].current_time)
    /\ race' = [race EXCEPT
                  !.pc[t] = "idle",
                  !.pend[t] = RaceIdle.pend[t],
                  !.allowed = Append(@, [key |-> race.pend[t].rate_key,
                                         time |-> race.pend[t].current_time])]
    /\ UNCHANGED <<clock, rate_log, pipelineVars, simVars>>

RaceNext ==
    \/ NewRateLimitGuard
    \/ \E t \in RaceThreads : RaceTest(t)
    \/ \E t \in RaceThreads : RaceAppend(t)

SpecRace == RateInit /\ [][RaceNext]_vars

----------------------------------------------------------------------------
(* guards/similarity.py: SimilarityGuard.  A text is a sequence of          *)
(* one-character strings.  hashlib.md5 is modelled as injective: the hash  *)
(* of s is the pair <<"md5", s>>, so two hashes are equal exactly when the *)
(* hashed strings are.  A float in [0, 1] is a fraction [num, den] with    *)
(* den > 0.  The two dicts keep insertion order: each is a sequence of     *)
(* [k, v] entries.                                                         *)

\* Number of check calls made on one SimilarityGuard.
MaxSubmissions == 4

\* The texts submitted: "x", "X", "x y", "y", "!" and "a".
SimTexts ==
    {<<"x">>, <<"X">>, <<"x", " ", "y">>, <<"y">>, <<"!">>, <<"a">>}

Frac(num, den) == [num |-> num, den |-> den]

\* Constructor arguments tried.
ThresholdValues == {Frac(0, 1), Frac(1, 2), Frac(1, 1)}
ActionValues == {"block", "flag"}
HistorySizeValues == {0, 1, 2}

FracGT(f, g) == f.num * g.den > g.num * f.den
FracGE(f, g) == f.num * g.den >= g.num * f.den

Md5(s) == <<"md5", s>>

\* Insertion-ordered dict operations.
Keys(d) == {d[i].k : i \in 1..Len(d)}
Has(d, key) == key \in Keys(d)
Get(d, key) == d[CHOOSE i \in 1..Len(d) : d[i].k = key].v
Del(d, key) == SelectSeq(d, LAMBDA e : e.k # key)
Put(d, key, value) ==
    IF Has(d, key)
    THEN [i \in 1..Len(d) |-> IF d[i].k = key THEN [k |-> key, v |-> value] ELSE d[i]]
    ELSE Append(d, [k |-> key, v |-> value])

\* str.lower() on the alphabet used here.
LowerChar(c) ==
    CASE c = "X" -> "x"
      [] c = "Y" -> "y"
      [] c = "A" -> "a"
      [] OTHER   -> c

Lower(s) == [i \in 1..Len(s) |-> LowerChar(s[i])]

\* str.split(): the maximal runs of non-space characters.
RECURSIVE SplitFrom(_, _, _)
SplitFrom(s, word, words) ==
    LET closed == IF word = <<>> THEN words ELSE Append(words, word)
    IN  IF s = <<>> THEN closed
        ELSE IF s[1] = " " THEN SplitFrom(Tail(s), <<>>, closed)
        ELSE SplitFrom(Tail(s), Append(word, s[1]), words)

Split(s) == SplitFrom(s, <<>>, <<>>)

\* ' '.join(words)
RECURSIVE Join(_)
Join(words) ==
    IF words = <<>> THEN <<>>
    ELSE IF Len(words) = 1 THEN words[1]
    ELSE words[1] \o <<" ">> \o Join(Tail(words))

\* re.sub(r'\s+', ' ', s): every run of spaces becomes one space.
RECURSIVE CollapseSpaces(_)
CollapseSpaces(s) ==
    IF Len(s) < 2 THEN s
    ELSE IF s[1] = " " /\ s[2] = " " THEN CollapseSpaces(Tail(s))
    ELSE <<s[1]>> \o CollapseSpaces(Tail(s))

\* The characters of [a-z0-9\s] in the alphabet used here.
KeptChars == {"a", "b", "x", "y", "0", "1", " "}

\* re.sub(r'[^a-z0-9\s]', '', s)
RemovePunctuation(s) == SelectSeq(s, LAMBDA c : c \in KeptChars)

\* str.strip()
RECURSIVE Strip(_)
Strip(s) ==
    IF s = <<>> THEN s
    ELSE IF s[1] = " " THEN Strip(Tail(s))
    ELSE IF s[Len(s)] = " " THEN Strip(SubSeq(s, 1, Len(s) - 1))
    ELSE s

stop_words ==
    {<<"t","h","e">>, <<"a">>, <<"a","n">>, <<"a","n","d">>, <<"o","r">>,
     <<"b","u","t">>, <<"i","n">>, <<"o","n">>, <<"a","t">>, <<"t","o">>,
     <<"f","o","r">>, <<"o","f">>, <<"w","i","t","h">>, <<"b","y">>,
     <<"i","s">>, <<"a","r","e">>, <<"w","a","s">>, <<"w","e","r","e">>,
     <<"b","e">>, <<"b","e","e","n">>, <<"b","e","i","n","g">>}

\* SimilarityGuard._normalize_text
normalize_text(text) ==
    LET normalized == RemovePunctuation(CollapseSpaces(Lower(text)))
        words == Split(normalized)
        filtered_words == SelectSeq(words, LAMBDA word : word \notin stop_words)
    IN  Strip(Join(filtered_words))

\* set(text.split())
Tokens(text) == {Split(text)[i] : i \in 1..Len(Split(text))}

\* SimilarityGuard._calculate_similarity
calculate_similarity(text1, text2) ==
    IF text1 = <<>> \/ text2 = <<>> THEN Frac(0, 1)
    ELSE LET set1 == Tokens(text1)
             set2 == Tokens(text2)
             intersection == Cardinality(set1 \cap set2)
             union == Cardinality(set1 \cup set2)
         IN  IF set1 = {} /\ set2 = {} THEN Frac(1, 1)
             ELSE IF union > 0 THEN Frac(intersection, union)
             ELSE Frac(0, 1)

NoMatch == [found |-> FALSE]

\* The metadata of the first content_hashes entry stored with stored_hash.
MatchInfo(self, stored_hash) ==
    LET hits == SelectSeq(self.content_hashes,
                    LAMBDA e : e.v.normalized_hash = stored_hash)
    IN  IF hits = <<>> THEN [audit_id |-> NoneId] ELSE [audit_id |-> hits[1].v.audit_id]

\* The loop of _find_similar_content over normalized_content[1..n]: an entry
\* replaces the best match only when it is strictly more similar.
RECURSIVE BestMatch(_, _, _)
BestMatch(self, normalized_text, n) ==
    IF n = 0 THEN [found |-> FALSE, similarity |-> Frac(0, 1)]
    ELSE LET best == BestMatch(self, normalized_text, n - 1)
             stored == self.normalized_content[n]
             similarity == calculate_similarity(normalized_text, stored.v)
         IN  IF FracGT(similarity, best.similarity)
             THEN [found |-> TRUE, hash |-> stored.k, similarity |-> similarity,
                   text |-> stored.v,
                   audit_id |-> MatchInfo(self, stored.k).audit_id]
             ELSE best

\* SimilarityGuard._find_similar_content: NoMatch stands for None.
find_similar_content(self, normalized_text) ==
    IF normalized_text = <<>> THEN NoMatch
    ELSE LET best == BestMatch(self, normalized_text, Len(self.normalized_content))
         IN  IF FracGT(best.similarity, Frac(0, 1)) THEN best ELSE NoMatch

\* Mutant: only a similarity above the threshold counts.
MeetsThreshold_Strict(self, similarity_score) ==
    FracGT(similarity_score, self.similarity_threshold)

\* "if similarity_score >= self.similarity_threshold"
MeetsThreshold(self, similarity_score) ==
    FracGE(similarity_score, self.similarity_threshold)

\* Mutant: the most recently inserted entry is the one removed.
OldestHash_Newest(content_hashes) == content_hashes[Len(content_hashes)].k

\* next(iter(self.content_hashes)), on a dict that is not empty
OldestHash(content_hashes) == content_hashes[1].k

\* _store_content reaches next(iter(...)) on an empty dict: StopIteration.
StoreRaises(self) ==
    /\ Len(self.content_hashes) >= self.max_history_size
    /\ self.content_hashes = <<>>

\* Mutant: a full history is emptied instead of losing its oldest entry.
store_content_EvictAll(self, content_hash, normalized_hash, normalized_text, ctx, now) ==
    LET full == Len(self.content_hashes) >= self.max_history_size
        hashes == IF full THEN <<>> ELSE self.content_hashes
        texts == IF full THEN <<>> ELSE self.normalized_content
    IN  [self EXCEPT
            !.content_hashes =
                Put(hashes, content_hash,
                    [audit_id |-> ctx.audit_id, timestamp |-> now,
                     normalized_hash |-> normalized_hash,
                     user_role |-> ctx.user_role, model |-> ctx.model]),
            !.normalized_content = Put(texts, normalized_hash, normalized_text)]

\* SimilarityGuard._store_content, when it does not raise.
store_content(self, content_hash, normalized_hash, normalized_text, ctx, now) ==
    LET full == Len(self.content_hashes) >= self.max_history_size
        oldest_hash == OldestHash(self.content_hashes)
        hashes == IF full THEN Del(self.content_hashes, oldest_hash)
                  ELSE self.content_hashes
        texts == IF full /\ Has(self.normalized_content, oldest_hash)
                 THEN Del(self.normalized_content, oldest_hash)
                 ELSE self.normalized_content
    IN  [self EXCEPT
            !.content_hashes =
                Put(hashes, content_hash,
                    [audit_id |-> ctx.audit_id, timestamp |-> now,
                     normalized_hash |-> normalized_hash,
                     user_role |-> ctx.user_role, model |-> ctx.model]),
            !.normalized_content = Put(texts, normalized_hash, normalized_text)]

\* Mutant: a detection is never turned into a deny.
handle_similarity_detection_Flag(self, data, reasons, evidence, ctx) ==
    DecisionAllow(data, ctx.audit_id, evidence, NoneId)

\* SimilarityGuard._handle_similarity_detection
handle_similarity_detection(self, data, reasons, evidence, ctx) ==
    IF self.action = "block"
    THEN DecisionDeny(data, reasons, ctx.audit_id, evidence, NoneId)
    ELSE DecisionAllow(data, ctx.audit_id, evidence, NoneId)

\* Mutant: the result is returned without the storage step.
StoreAndReturn_NoStore(self, content_hash, normalized_hash, normalized, ctx, now, result) ==
    [self |-> self, out |-> Returned(result)]

\* The storage step followed by "return result".
StoreAndReturn(self, content_hash, normalized_hash, normalized, ctx, now, result) ==
    IF StoreRaises(self)
    THEN [self |-> self, out |-> Raised("StopIteration", "", FALSE)]
    ELSE [self |-> store_content(self, content_hash, normalized_hash, normalized, ctx, now),
          out  |-> Returned(result)]

\* SimilarityGuard.check: the guard after the call and what the call gave.
SimilarityGuardCheck(self, data, ctx, now) ==
    LET text == data
        content_hash == Md5(text)
        normalized == normalize_text(text)
        normalized_hash == Md5(normalized)
        evidence == [k \in {"content_hash", "normalized_hash", "text_length",
                            "normalized_length"} |->
                        CASE k = "content_hash" -> content_hash
                          [] k = "normalized_hash" -> normalized_hash
                          [] k = "text_length" -> Len(text)
                          [] OTHER -> Len(normalized)]
        similar_content == find_similar_content(self, normalized)
    IN
    IF Has(self.content_hashes, content_hash)
    THEN LET previous_info == Get(self.content_hashes, content_hash)
             exact == [k \in {"duplicate_type", "previous_audit_id",
                              "previous_timestamp"} |->
                          CASE k = "duplicate_type" -> "exact"
                            [] k = "previous_audit_id" -> previous_info.audit_id
                            [] OTHER -> previous_info.timestamp]
         IN  [self |-> self,
              out  |-> Returned(handle_similarity_detection(self, data,
                           <<Reason("exact_duplicate", "similarity", "", 0)>>,
                           Update(evidence, exact), ctx))]
    ELSE IF /\ self.use_fuzzy_matching
            /\ similar_content.found
            /\ MeetsThreshold(self, similar_content.similarity)
    THEN LET fuzzy == [k \in {"duplicate_type", "similarity_score", "similar_hash",
                              "similar_audit_id"} |->
                          CASE k = "duplicate_type" -> "fuzzy"
                            [] k = "similarity_score" -> similar_content.similarity
                            [] k = "similar_hash" -> similar_content.hash
                            [] OTHER -> similar_content.audit_id]
             result == handle_similarity_detection(self, data,
                           <<Reason("similar", "similarity", "", 0)>>,
                           Update(evidence, fuzzy), ctx)
         IN  StoreAndReturn(self, content_hash, normalized_hash, normalized, ctx, now, result)
    ELSE StoreAndReturn(self, content_hash, normalized_hash, normalized, ctx, now,
                        DecisionAllow(data, ctx.audit_id, evidence, NoneId))

\* SimilarityGuard.__init__: the arguments are stored as given.
SimilarityGuard(similarity_threshold, action, max_history_size, use_fuzzy_matching) ==
    [constructed |-> TRUE,
     similarity_threshold |-> similarity_threshold,
     action |-> action,
     max_history_size |-> max_history_size,
     use_fuzzy_matching |-> use_fuzzy_matching,
     content_hashes |-> <<>>,
     normalized_content |-> <<>>]

SimInit == PipelineIdle /\ GuardsIdle

\* guard = SimilarityGuard(similarity_threshold=..., action=..., ...)
NewSimilarityGuard ==
    /\ sim_guard = NotConstructed
    /\ \E st \in ThresholdValues, ac \in ActionValues,
          mh \in HistorySizeValues, uf \in BOOLEAN :
          sim_guard' = SimilarityGuard(st, ac, mh, uf)
    /\ UNCHANGED <<sim_log, pipelineVars, rateVars>>

\* guard.check(text, Context(audit_id=...)): the n-th call carries the n-th
\* audit id and reads the clock at n.
CallSimilarityCheck ==
    /\ sim_guard # NotConstructed
    /\ Len(sim_log) < MaxSubmissions
    /\ \E text \in SimTexts :
          LET n == Len(sim_log) + 1
              ctx == [Context(NoRole) EXCEPT !.audit_id = <<"ctx", n>>]
              r == SimilarityGuardCheck(sim_guard, text, ctx, n)
          IN  /\ sim_guard' = r.self
              /\ sim_log' = Append(sim_log,
                     [text |-> text, before |-> sim_guard, after |-> r.self,
                      out |-> r.out])
    /\ UNCHANGED <<pipelineVars, rateVars>>

SimNext ==
    \/ NewSimilarityGuard
    \/ CallSimilarityCheck

SpecSim == SimInit /\ [][SimNext]_vars

----------------------------------------------------------------------------
(* Properties *)

Frames == {validate, avalidate}

CallIdx(f) == [k \in 1..Len(f.calls) |-> f.calls[k].idx]

ReturnedAction(f, k) ==
    IF f.calls[k].out.raised THEN "raise" ELSE f.calls[k].out.dec.action

HasCall(f, action) == \E k \in 1..Len(f.calls) : ReturnedAction(f, k) = action

\* The data a guard at position k must be handed: the output of the most
\* recent earlier call that returned transform, else the original input.
RECURSIVE ChainedData(_, _)
ChainedData(f, k) ==
    IF k = 1 THEN f.data
    ELSE IF ReturnedAction(f, k - 1) = "transform"
         THEN f.calls[k - 1].out.dec.output
         ELSE ChainedData(f, k - 1)

\* The reasons the calls made so far contribute, in call order.
RECURSIVE ReasonsOf(_, _)
ReasonsOf(f, k) ==
    IF k = 0 THEN <<>>
    ELSE ReasonsOf(f, k - 1) \o
         (IF f.calls[k].out.raised
          THEN <<Reason("failed", f.calls[k].idx, f.calls[k].out.exc, 0)>>
          ELSE f.calls[k].out.dec.reasons)

\* The evidence the calls made so far contribute, later calls overwriting.
RECURSIVE EvidenceOf(_, _)
EvidenceOf(f, k) ==
    IF k = 0 THEN NoEvidence
    ELSE Update(EvidenceOf(f, k - 1), f.calls[k].out.dec.evidence)

WellFormed(d) ==
    /\ d.action \in {"allow", "deny", "transform", "retry"}
    /\ d.allowed \in BOOLEAN
    /\ d.audit_id # NoneId

\* C1: with fail_fast, a guard that returns deny (or retry) is the last
\* guard invoked, no guard with a greater index is ever invoked, and the
\* call returns a Decision with that guard's action.
C1_FailFastStops ==
    \A f \in Frames :
        fail_fast =>
            \A k \in 1..Len(f.calls) :
                ReturnedAction(f, k) \in {"deny", "retry"} =>
                    /\ k = Len(f.calls)
                    /\ \A j \in 1..Len(f.calls) : f.calls[j].idx <= f.calls[k].idx
                    /\ f.pc = "returned"
                    /\ f.result.action = ReturnedAction(f, k)

C1_Witness ==
    /\ fail_fast
    /\ validate.pc = "returned"
    /\ Len(validate.calls) = 1
    /\ Len(steps) = 2
    /\ ReturnedAction(validate, 1) = "deny"
    /\ validate.result.action = "deny"

\* C2: without fail_fast, when no guard raises, a call that has ended has
\* invoked every guard exactly once, in list order, and at no point of
\* the run has a guard been skipped, repeated or taken out of order.
C2_AllGuardsOnce ==
    \A f \in Frames :
        (~fail_fast /\ ~HasCall(f, "raise")) =>
            /\ \A k \in 1..Len(f.calls) : f.calls[k].idx = k
            /\ f.pc \in {"returned", "raised"} => Len(f.calls) = Len(steps)
            /\ f.pc = "loop" => Len(f.calls) = f.i - 1

C2_Witness ==
    /\ ~fail_fast
    /\ validate.pc = "returned"
    /\ CallIdx(validate) = <<1, 2>>
    /\ ReturnedAction(validate, 1) = "deny"
    /\ ReturnedAction(validate, 2) = "retry"

\* C3: when every guard of the list returned allow, the call returns a
\* Decision with action allow, allowed, no reasons and the original input
\* as output, whatever fail_fast and on_error are.
C3_AllAllow ==
    \A f \in Frames :
        (/\ f.pc = "returned"
         /\ \A k \in 1..Len(f.calls) : ReturnedAction(f, k) = "allow") =>
            /\ Len(f.calls) = Len(steps)
            /\ f.result.action = "allow"
            /\ f.result.allowed
            /\ f.result.reasons = <<>>
            /\ f.result.output = f.data

C3_Witness ==
    /\ validate.pc = "returned"
    /\ Len(validate.calls) = 2
    /\ \A k \in 1..2 : ReturnedAction(validate, k) = "allow"
    /\ validate.calls[1].out.dec.output # validate.data
    /\ validate.result.output = req_data

\* C4: every guard is handed the output of the most recent earlier guard
\* that returned transform (the original input if there is none), outputs
\* of allow, deny and retry Decisions never become the current data, and a
\* run of two transforming guards A, B ends in transform with B(A(input)).
C4_TransformChaining ==
    \A f \in Frames :
        /\ \A k \in 1..Len(f.calls) : f.calls[k].arg = ChainedData(f, k)
        /\ f.pc # "idle" => f.current_data = ChainedData(f, Len(f.calls) + 1)
        /\ (/\ f.pc = "returned"
            /\ Len(f.calls) = 2
            /\ steps = <<"upper", "prefix">>) =>
               /\ f.result.action = "transform"
               /\ f.result.output = Prefix(Upper(f.data))

C4_Witness ==
    /\ validate.pc = "returned"
    /\ steps = <<"upper", "prefix">>
    /\ validate.data = <<"a", "b">>
    /\ validate.result.output = <<"x", "_", "A", "B">>
    /\ validate.result.output # Upper(Prefix(validate.data))

\* C5: a guard that raises never makes the call raise: the pipeline
\* catches the fault, makes no more guard calls than there are guards, and
\* whenever the call has ended it has returned a well-formed Decision.
C5_FaultsCaught ==
    \A f \in Frames :
        /\ f.pc # "raised"
        /\ Len(f.calls) <= Len(steps)
        /\ f.pc = "returned" => WellFormed(f.result)

C5_Witness ==
    /\ validate.pc = "returned"
    /\ Len(validate.calls) = 2
    /\ validate.calls[1].out.raised
    /\ validate.calls[1].out.exc_type = "RuntimeError"
    /\ validate.calls[2].out.raised
    /\ validate.calls[2].out.exc_type = "ValueError"

\* C6: a guard that raises contributes a reason naming it and the fault
\* message; under on_error = deny or fail_fast the call returns deny at
\* once with the reasons and evidence accumulated so far; otherwise the
\* next guard is run on the same data, and a run in which every guard
\* either raised or allowed ends in allow.
C6_FaultPolicy ==
    \A f \in Frames :
        /\ f.all_reasons = ReasonsOf(f, Len(f.calls))
        /\ \A k \in 1..Len(f.calls) :
              f.calls[k].out.raised =>
                 IF on_error = "deny" \/ fail_fast
                 THEN /\ k = Len(f.calls)
                      /\ f.pc = "returned"
                      /\ f.early
                      /\ f.result.action = "deny"
                      /\ f.result.reasons = ReasonsOf(f, k)
                      /\ f.result.evidence = EvidenceOf(f, k - 1)
                 ELSE /\ k < Len(f.calls) =>
                            /\ f.calls[k + 1].idx = f.calls[k].idx + 1
                            /\ f.calls[k + 1].arg = f.calls[k].arg
                      /\ k = Len(f.calls) =>
                            /\ f.pc \in {"loop", "synth", "returned"}
                            /\ f.current_data = f.calls[k].arg
                            /\ f.pc = "loop" => f.i = f.calls[k].idx + 1
                            /\ f.pc = "returned" => ~f.early
        /\ (/\ f.pc = "returned"
            /\ ~(on_error = "deny" \/ fail_fast)
            /\ HasCall(f, "raise")
            /\ \A k \in 1..Len(f.calls) : ReturnedAction(f, k) \in {"raise", "allow"}) =>
               f.result.action = "allow"

C6_Witness ==
    /\ ~fail_fast
    /\ on_error = "retry"
    /\ validate.pc = "returned"
    /\ Len(validate.calls) = 2
    /\ validate.calls[1].out.raised
    /\ ReturnedAction(validate, 2) = "allow"
    /\ validate.result.action = "allow"

\* C7: a call that runs past the last guard returns transform with the
\* current data when some guard returned transform and allow otherwise, so
\* its Decision is allowed; without fail_fast a deny or retry of a guard
\* never reaches the final Decision.
C7_FinalSynthesis ==
    \A f \in Frames :
        /\ (f.pc = "returned" /\ ~f.early) =>
              /\ Len(f.calls) = Len(steps)
              /\ IF HasCall(f, "transform")
                 THEN /\ f.result.action = "transform"
                      /\ f.result.output = f.current_data
                 ELSE /\ f.result.action = "allow"
                      /\ f.result.output = f.data
              /\ f.result.allowed
        /\ (f.pc = "returned" /\ ~fail_fast /\ ~HasCall(f, "raise")) =>
              /\ ~f.early
              /\ f.result.allowed

C7_Witness ==
    /\ ~fail_fast
    /\ validate.pc = "returned"
    /\ ~validate.early
    /\ Len(validate.calls) = 2
    /\ ReturnedAction(validate, 1) = "deny"
    /\ ReturnedAction(validate, 2) = "retry"
    /\ validate.result.action = "allow"
    /\ validate.result.allowed

SansAudit(d) == [d EXCEPT !.audit_id = NoneId]

DataSeen ==
    {req_data} \cup {validate.calls[k].arg : k \in 1..Len(validate.calls)}
               \cup {avalidate.calls[k].arg : k \in 1..Len(avalidate.calls)}

\* Every guard's acheck returns, or raises, what its check does in the
\* environment validate was called from.
SameGuardBehaviour ==
    \A i \in 1..Len(steps), d \in DataSeen :
        GuardAcheck(steps[i], i, d, CallerAuditId, Uuid4(0))
            = GuardCheck(steps[i], i, d, CallerAuditId, validate.loop_running, Uuid4(0))

BothEnded ==
    /\ validate.pc \in {"returned", "raised"}
    /\ avalidate.pc \in {"returned", "raised"}

\* C8: when the guards behave alike on both paths, validate and avalidate
\* invoke the same guards in the same order on the same data and return
\* the same Decision: equal in every field but the audit id, which is the
\* audit id of the Context each call worked with, hence equal too when
\* both calls were given the same Context.  A guard class that does not
\* override acheck returns from it what check returns.
C8_SyncAsyncEquivalence ==
    /\ (BothEnded /\ SameGuardBehaviour) =>
          /\ validate.pc = avalidate.pc
          /\ CallIdx(validate) = CallIdx(avalidate)
          /\ \A k \in 1..Len(validate.calls) :
                validate.calls[k].arg = avalidate.calls[k].arg
          /\ SansAudit(validate.result) = SansAudit(avalidate.result)
          /\ validate.result.audit_id = validate.audit_id
          /\ avalidate.result.audit_id = avalidate.audit_id
          /\ validate.audit_id = avalidate.audit_id =>
                validate.result = avalidate.result
    /\ \A i \in 1..Len(steps), d \in DataSeen, loop_running \in BOOLEAN :
          steps[i] # "async" =>
             GuardAcheck(steps[i], i, d, CallerAuditId, Uuid4(0))
                = GuardCheck(steps[i], i, d, CallerAuditId, loop_running, Uuid4(0))

C8_Witness ==
    /\ BothEnded
    /\ SameGuardBehaviour
    /\ req_ctx = CallerAuditId
    /\ ~fail_fast
    /\ steps = <<"redact_deny", "prefix">>
    /\ validate.result.action = "transform"
    /\ avalidate.result = validate.result
    /\ Len(avalidate.result.reasons) = 2

\* C9: AsyncGuard.check called while an event loop is running raises its
\* descriptive error and does not reach asyncio.run; called with no loop
\* running it returns the Decision of acheck.
C9_AsyncCheckFailsFast ==
    \A k \in 1..Len(validate.calls) :
        steps[validate.calls[k].idx] = "async" =>
            LET out == validate.calls[k].out
            IN  IF validate.loop_running
                THEN /\ out.raised
                     /\ out.exc = DescriptiveError
                     /\ ~out.asyncio_run
                ELSE /\ ~out.raised
                     /\ out.dec.action = "allow"
                     /\ out.dec.output = validate.calls[k].arg

Consistent(d) == d.allowed <=> d.action \in {"allow", "transform"}

\* C10: every Decision a factory constructor built for a guard, and every
\* Decision validate or avalidate returned, is allowed exactly when its
\* action is allow or transform.
C10_AllowedIffAction ==
    \A f \in Frames :
        /\ f.pc = "returned" => Consistent(f.result)
        /\ \A k \in 1..Len(f.calls) :
              ~f.calls[k].out.raised => Consistent(f.calls[k].out.dec)

C10_Witness ==
    /\ fail_fast
    /\ avalidate.pc = "returned"
    /\ Len(avalidate.calls) = 2
    /\ ReturnedAction(avalidate, 1) = "transform"
    /\ avalidate.calls[1].out.dec.allowed
    /\ ReturnedAction(avalidate, 2) = "retry"
    /\ ~avalidate.calls[2].out.dec.allowed
    /\ avalidate.result.action = "retry"
    /\ ~avalidate.result.allowed

\* C11: constructing a Pipeline with an empty guard list raises at
\* construction time (constructed = "error"), so a constructed Pipeline always
\* has at least one guard and neither validate nor avalidate is ever entered
\* with an empty list of steps.
C11_EmptyRejected ==
    /\ constructed = "ok" => Len(steps) >= 1
    /\ (constructed # "none" /\ steps = <<>>) => constructed = "error"
    /\ \A f \in {validate, avalidate} :
          f.pc # "idle" => (constructed = "ok" /\ Len(steps) >= 1)

\* The constructor was called with [] and raised.
C11_Witness == constructed = "error" /\ steps = <<>>

----------------------------------------------------------------------------
(* Properties of RateLimitGuard, over the history of its check calls *)

\* The check calls made under one key, in order.
KeyLog(k) == SelectSeq(rate_log, LAMBDA e : e.key = k)

RateConstructed == rate_limit # NotConstructed

\* d1 and d2 agree on key k: both lack it or both map it to the same value.
SameEntry(d1, d2, k) ==
    /\ (k \in DOMAIN d1) = (k \in DOMAIN d2)
    /\ k \in DOMAIN d1 => d1[k] = d2[k]

\* C13: for a key with no prior state, among the checks made within one
\* window of the key's first check exactly the first max_requests are allowed
\* and every later one is denied (with max_requests = 0 the first is denied);
\* a check under one key leaves the timestamps and the block state of every
\* other key as they were.
C13_QuotaAndIsolation ==
    RateConstructed =>
        /\ \A k \in RateKeys :
              LET L == KeyLog(k)
              IN  \A n \in 1..Len(L) :
                     L[n].time <= L[1].time + rate_limit.window_seconds =>
                         /\ L[n].dec.allowed = (n <= rate_limit.max_requests)
                         /\ L[n].dec.action =
                                IF n <= rate_limit.max_requests THEN "allow" ELSE "deny"
        /\ \A i \in 1..Len(rate_log) :
              \A k \in RateKeys \ {rate_log[i].key} :
                 /\ rate_log[i].after.request_history[k] =
                        rate_log[i].before.request_history[k]
                 /\ SameEntry(rate_log[i].after.blocked_until,
                              rate_log[i].before.blocked_until, k)

\* max_requests = 2: allow, allow, deny under one key, then another key is
\* allowed at the same time.
C13_Witness ==
    /\ RateConstructed
    /\ rate_limit.max_requests = 2
    /\ Len(rate_log) = 4
    /\ \A i \in 1..3 : rate_log[i].key = "anonymous"
    /\ rate_log[1].dec.action = "allow"
    /\ rate_log[2].dec.action = "allow"
    /\ rate_log[3].dec.action = "deny"
    /\ rate_log[4].key = "admin"
    /\ rate_log[4].time = rate_log[3].time
    /\ rate_log[4].dec.action = "allow"

PositiveConfig ==
    /\ rate_limit.max_requests >= 1
    /\ rate_limit.window_seconds >= 1
    /\ rate_limit.block_duration >= 1

\* The check recorded in e found a block entry for its key.
FoundBlock(e) == e.key \in DOMAIN e.before.blocked_until

\* C14 as stated: once a key is blocked, a check before the block has expired
\* is denied, and the first check after it has expired is allowed and leaves
\* the key with exactly one timestamp, for every positive configuration.
C14_FreshCountAfterBlock ==
    (RateConstructed /\ PositiveConfig) =>
        \A i \in 1..Len(rate_log) :
           LET e == rate_log[i]
           IN  FoundBlock(e) =>
                  IF e.time < e.before.blocked_until[e.key]
                  THEN e.dec.action = "deny"
                  ELSE /\ e.dec.action = "allow"
                       /\ Len(e.after.request_history[e.key]) = 1

\* C14 amended: a check before the block has expired is denied; the first
\* check after it has expired is judged against the timestamps that are
\* still inside the window: with fewer than max_requests of them it is
\* allowed and the count is theirs plus one, otherwise it is denied and the
\* key is blocked again.  When block_duration > window_seconds none is left,
\* so that check is allowed with a count of exactly 1.
C14_UnblockingRecount ==
    (RateConstructed /\ PositiveConfig) =>
        \A i \in 1..Len(rate_log) :
           LET e == rate_log[i]
               kept == SelectSeq(e.before.request_history[e.key],
                          LAMBDA t : t >= e.time - rate_limit.window_seconds)
               history == e.after.request_history[e.key]
           IN  FoundBlock(e) =>
                  IF e.time < e.before.blocked_until[e.key]
                  THEN e.dec.action = "deny"
                  ELSE /\ Len(kept) < rate_limit.max_requests =>
                             /\ e.dec.action = "allow"
                             /\ history = Append(kept, e.time)
                             /\ e.key \notin DOMAIN e.after.blocked_until
                       /\ Len(kept) >= rate_limit.max_requests =>
                             /\ e.dec.action = "deny"
                             /\ history = kept
                             /\ e.key \in DOMAIN e.after.blocked_until
                             /\ e.after.blocked_until[e.key] =
                                    e.time + rate_limit.block_duration
                       /\ rate_limit.block_duration > rate_limit.window_seconds =>
                             /\ e.dec.action = "allow"
                             /\ history = <<e.time>>

\* A key was blocked, was denied while blocked, and its first check after
\* the block (longer than the window) was allowed with a count of 1.
C14_Witness ==
    /\ RateConstructed
    /\ PositiveConfig
    /\ rate_limit.block_duration > rate_limit.window_seconds
    /\ Len(rate_log) = 4
    /\ \A i \in 1..4 : rate_log[i].key = "anonymous"
    /\ FoundBlock(rate_log[3])
    /\ rate_log[3].time < rate_log[3].before.blocked_until["anonymous"]
    /\ rate_log[3].dec.action = "deny"
    /\ FoundBlock(rate_log[4])
    /\ rate_log[4].time >= rate_log[4].before.blocked_until["anonymous"]
    /\ rate_log[4].dec.action = "allow"
    /\ Len(rate_limit.request_history["anonymous"]) = 1

\* C15: for every key and every time t, the allowed checks of the key with a
\* timestamp in the closed interval [t - window_seconds, t] number at most
\* max_requests.
C15_SlidingWindowBound ==
    RateConstructed =>
        \A k \in RateKeys :
           LET L == KeyLog(k)
           IN  \A t \in 0..(MaxTime + rate_limit.window_seconds) :
                  Cardinality({n \in 1..Len(L) :
                                 /\ L[n].dec.allowed
                                 /\ t - rate_limit.window_seconds <= L[n].time
                                 /\ L[n].time <= t}) <= rate_limit.max_requests

\* A check exactly window_seconds after a full window's first timestamp is
\* denied, because that timestamp is still counted.
C15_Witness ==
    /\ RateConstructed
    /\ rate_limit.max_requests = 1
    /\ Len(rate_log) = 2
    /\ rate_log[1].key = rate_log[2].key
    /\ rate_log[1].dec.allowed
    /\ rate_log[2].time = rate_log[1].time + rate_limit.window_seconds
    /\ ~rate_log[2].dec.allowed

HasKey(evidence, k) == k \in DOMAIN evidence

\* C16 as stated: the evidence of every Decision of check holds the resolved
\* key, the window occupancy, and the remaining quota or the remaining block
\* seconds.
C16_EvidenceOnEveryPath ==
    \A i \in 1..Len(rate_log) :
       LET e == rate_log[i]
           ev == e.dec.evidence
       IN  /\ HasKey(ev, "rate_key") /\ ev["rate_key"] = e.key
           /\ HasKey(ev, "requests_in_window")
           /\ \/ HasKey(ev, "requests_remaining")
              \/ HasKey(ev, "remaining_seconds")
              \/ HasKey(ev, "blocked_for_seconds")

\* C16 amended: every Decision's evidence holds the resolved key; an allow
\* adds the window occupancy and the remaining quota; the deny that sets the
\* block adds the window occupancy, the limit, the window and the block
\* seconds; the deny of a still-blocked key adds the block expiry and the
\* remaining block seconds, and no window occupancy.
C16_EvidencePerPath ==
    RateConstructed =>
    \A i \in 1..Len(rate_log) :
       LET e == rate_log[i]
           ev == e.dec.evidence
           occupancy == Len(e.after.request_history[e.key])
           still_blocked == /\ FoundBlock(e)
                            /\ e.time < e.before.blocked_until[e.key]
       IN  /\ HasKey(ev, "rate_key") /\ ev["rate_key"] = e.key
           /\ e.dec.action \in {"allow", "deny"}
           /\ still_blocked => e.dec.action = "deny"
           /\ e.dec.action = "allow" =>
                 /\ DOMAIN ev = {"rate_key", "requests_in_window", "requests_remaining"}
                 /\ ev["requests_in_window"] = occupancy
                 /\ ev["requests_remaining"] = rate_limit.max_requests - occupancy
           /\ (e.dec.action = "deny" /\ ~still_blocked) =>
                 /\ DOMAIN ev = {"rate_key", "requests_in_window", "max_requests",
                                 "window_seconds", "blocked_for_seconds"}
                 /\ ev["requests_in_window"] = occupancy
                 /\ ev["max_requests"] = rate_limit.max_requests
                 /\ ev["blocked_for_seconds"] = rate_limit.block_duration
                 /\ e.after.blocked_until[e.key] = e.time + rate_limit.block_duration
           /\ (e.dec.action = "deny" /\ still_blocked) =>
                 /\ DOMAIN ev = {"rate_key", "blocked_until", "remaining_seconds"}
                 /\ ev["blocked_until"] = e.before.blocked_until[e.key]
                 /\ ev["remaining_seconds"] = e.before.blocked_until[e.key] - e.time
                 /\ ev["remaining_seconds"] > 0

\* All three paths were taken: allow, the deny that blocks, the deny of a
\* still-blocked key.
C16_Witness ==
    /\ Len(rate_log) = 3
    /\ rate_log[1].dec.action = "allow"
    /\ HasKey(rate_log[2].dec.evidence, "blocked_for_seconds")
    /\ HasKey(rate_log[3].dec.evidence, "remaining_seconds")

----------------------------------------------------------------------------
(* Properties of SimilarityGuard, over the history of its check calls *)

SimConstructed == sim_guard # NotConstructed

\* The call recorded in e returned a Decision whose evidence reports a
\* duplicate of the given type.
Reported(e, type) ==
    /\ ~e.out.raised
    /\ "duplicate_type" \in DOMAIN e.out.dec.evidence
    /\ e.out.dec.evidence["duplicate_type"] = type

\* The call recorded in e returned after it had stored its content.
Stored(e) == ~e.out.raised /\ ~Reported(e, "exact")

\* The configured action was applied to the Decision of e.
ActionApplied(e) ==
    /\ e.out.dec.action = IF sim_guard.action = "block" THEN "deny" ELSE "allow"
    /\ e.out.dec.allowed = (sim_guard.action # "block")

\* C12: a stateful guard with an invalid numeric configuration (here a
\* SimilarityGuard with max_history_size below 1 or a threshold outside
\* [0, 1]) is never constructed, and no check of a constructed guard faults.
C12_InvalidConfigRejected ==
    SimConstructed =>
        /\ sim_guard.max_history_size >= 1
        /\ FracGE(sim_guard.similarity_threshold, Frac(0, 1))
        /\ FracGE(Frac(1, 1), sim_guard.similarity_threshold)
        /\ \A i \in 1..Len(sim_log) : ~sim_log[i].out.raised

\* C17: with max_history_size >= 1, the first submission to a fresh detector
\* is allowed and reports no duplicate; a submission whose text is in the
\* exact-hash store, in particular one that repeats the submission before
\* it, is reported as an exact duplicate, denied when action is block and
\* allowed when it is flag.
C17_ExactDuplicate ==
    (SimConstructed /\ sim_guard.max_history_size >= 1) =>
        \A i \in 1..Len(sim_log) :
           LET e == sim_log[i]
           IN  /\ i = 1 =>
                     /\ ~e.out.raised
                     /\ e.out.dec.action = "allow"
                     /\ "duplicate_type" \notin DOMAIN e.out.dec.evidence
               /\ (i > 1 /\ sim_log[IF i > 1 THEN i - 1 ELSE 1].text = e.text) =>
                     Reported(e, "exact") /\ ActionApplied(e)
               /\ Md5(e.text) \in Keys(e.before.content_hashes) =>
                     Reported(e, "exact") /\ ActionApplied(e)

\* A blocking detector allowed a string and denied its repetition as an
\* exact duplicate.
C17_Witness ==
    /\ SimConstructed
    /\ sim_guard.action = "block"
    /\ Len(sim_log) = 2
    /\ sim_log[1].text = sim_log[2].text
    /\ sim_log[1].out.dec.action = "allow"
    /\ Reported(sim_log[2], "exact")
    /\ sim_log[2].out.dec.action = "deny"

\* C18: a submission is reported as an exact duplicate exactly when the same
\* string was stored by an earlier call and fewer than max_history_size
\* strings have been stored since; so after max_history_size + 1 distinct
\* strings the first is no longer reported and the last max_history_size are.
C18_Eviction ==
    SimConstructed =>
        \A i \in 1..Len(sim_log) :
           Reported(sim_log[i], "exact") <=>
              \E j \in 1..(i - 1) :
                 /\ Stored(sim_log[j])
                 /\ sim_log[j].text = sim_log[i].text
                 /\ Cardinality({k \in (j + 1)..(i - 1) : Stored(sim_log[k])})
                        < sim_guard.max_history_size

\* max_history_size = 2: three distinct strings were stored, and the first,
\* submitted again, is not reported as an exact duplicate.
C18_Witness ==
    /\ SimConstructed
    /\ sim_guard.max_history_size = 2
    /\ Len(sim_log) = 4
    /\ \A j \in 1..3 : Stored(sim_log[j])
    /\ \A j, k \in 1..3 : j # k => sim_log[j].text # sim_log[k].text
    /\ sim_log[4].text = sim_log[1].text
    /\ ~sim_log[4].out.raised
    /\ ~Reported(sim_log[4], "exact")

\* C19: neither the exact-hash store nor the normalized-hash store ever
\* holds more than max_history_size items.
C19_BoundedHistory ==
    SimConstructed =>
        /\ Len(sim_guard.content_hashes) <= sim_guard.max_history_size
        /\ Len(sim_guard.normalized_content) <= sim_guard.max_history_size

\* Size of the intersection and of the union of the whitespace tokens.
Shared(text1, text2) == Cardinality(Tokens(text1) \cap Tokens(text2))
Joint(text1, text2) == Cardinality(Tokens(text1) \cup Tokens(text2))

\* The call recorded in e ran the fuzzy comparison: fuzzy matching is on,
\* the exact hash was not in the store, and the history can hold an item.
FuzzyCompared(e) ==
    /\ sim_guard.max_history_size >= 1
    /\ sim_guard.use_fuzzy_matching
    /\ Md5(e.text) \notin Keys(e.before.content_hashes)

\* The submission of e is in both stores after the call.
StoredAfterwards(e) ==
    /\ ~e.out.raised
    /\ Md5(e.text) \in Keys(e.after.content_hashes)
    /\ Md5(normalize_text(e.text)) \in Keys(e.after.normalized_content)
    /\ Get(e.after.normalized_content, Md5(normalize_text(e.text)))
           = normalize_text(e.text)

\* C20 as stated: a submission that ran the fuzzy comparison is reported as
\* a near-duplicate if and only if its Jaccard similarity (|intersection| /
\* |union|, 1 when both token sets are empty) with some stored normalized
\* text is at least similarity_threshold, and it is stored in either case.
C20_NearDuplicateIff ==
    SimConstructed =>
        \A i \in 1..Len(sim_log) :
           LET e == sim_log[i]
               th == sim_guard.similarity_threshold
               normalized == normalize_text(e.text)
               stored == e.before.normalized_content
           IN  FuzzyCompared(e) =>
                  /\ Reported(e, "fuzzy") <=>
                        \E n \in 1..Len(stored) :
                           IF Joint(normalized, stored[n].v) = 0
                           THEN th.den >= th.num
                           ELSE Shared(normalized, stored[n].v) * th.den
                                    >= th.num * Joint(normalized, stored[n].v)
                  /\ StoredAfterwards(e)

\* C20 amended: a submission that ran the fuzzy comparison is reported as a
\* near-duplicate if and only if its Jaccard similarity with some stored
\* normalized text is greater than zero and at least similarity_threshold
\* (so never when it shares no token with any stored text or normalizes to
\* the empty text); the configured action is applied, and the submission is
\* stored in either case.
C20_NearDuplicatePositive ==
    SimConstructed =>
        \A i \in 1..Len(sim_log) :
           LET e == sim_log[i]
               th == sim_guard.similarity_threshold
               normalized == normalize_text(e.text)
               stored == e.before.normalized_content
           IN  FuzzyCompared(e) =>
                  /\ Reported(e, "fuzzy") <=>
                        \E n \in 1..Len(stored) :
                           /\ Shared(normalized, stored[n].v) > 0
                           /\ Shared(normalized, stored[n].v) * th.den
                                  >= th.num * Joint(normalized, stored[n].v)
                  /\ Reported(e, "fuzzy") => ActionApplied(e)
                  /\ ~Reported(e, "fuzzy") => e.out.dec.action = "allow"
                  /\ StoredAfterwards(e)

\* threshold 1/2: "x" then "x y" (similarity exactly 1/2) is reported as a
\* near-duplicate and stored; a later "!" is compared and not reported.
C20_Witness ==
    /\ SimConstructed
    /\ sim_guard.similarity_threshold = Frac(1, 2)
    /\ sim_guard.max_history_size = 2
    /\ Len(sim_log) = 3
    /\ sim_log[1].text = <<"x">>
    /\ sim_log[2].text = <<"x", " ", "y">>
    /\ Reported(sim_log[2], "fuzzy")
    /\ StoredAfterwards(sim_log[2])
    /\ FuzzyCompared(sim_log[3])
    /\ ~Reported(sim_log[3], "fuzzy")
    /\ StoredAfterwards(sim_log[3])

----------------------------------------------------------------------------
(* Further properties of RateLimitGuard *)

\* The Decision of e is the deny of the block rule (key still blocked).
DeniedByBlock(e) ==
    e.dec.action = "deny" /\ HasKey(e.dec.evidence, "remaining_seconds")

\* The Decision of e is the deny of the quota rule, which sets the block.
DeniedByQuota(e) ==
    e.dec.action = "deny" /\ HasKey(e.dec.evidence, "blocked_for_seconds")

\* C21: the over-limit check at time T sets blocked_until = T +
\* block_duration; a check of the key at t < blocked_until is denied by the
\* block rule, whatever the data and however few timestamps are left in the
\* window; at t >= blocked_until the block rule no longer denies and the
\* entry is cleared (an allowed check leaves the key without a block, a
\* quota deny replaces it by a new one).
C21_BlockedState ==
    RateConstructed =>
        \A i \in 1..Len(rate_log) :
           LET e == rate_log[i]
           IN  /\ DeniedByQuota(e) =>
                     /\ e.key \in DOMAIN e.after.blocked_until
                     /\ e.after.blocked_until[e.key] =
                            e.time + rate_limit.block_duration
               /\ (FoundBlock(e) /\ e.time < e.before.blocked_until[e.key]) =>
                     /\ DeniedByBlock(e)
                     /\ \A data \in Inputs, ctx \in Contexts :
                           get_rate_key(rate_limit.key_extractor, ctx) = e.key =>
                              LET dec == RateLimitGuardCheck(e.before, data, ctx, e.time).dec
                              IN  dec.action = "deny" /\ ~dec.allowed /\ dec.output = data
               /\ (FoundBlock(e) /\ e.time >= e.before.blocked_until[e.key]) =>
                     /\ ~DeniedByBlock(e)
                     /\ e.dec.action = "allow" => e.key \notin DOMAIN e.after.blocked_until
                     /\ e.dec.action = "deny" => DeniedByQuota(e)

\* A blocked key is denied although no timestamp is left in its window, and
\* the check made exactly at blocked_until is not denied by the block.
C21_Witness ==
    /\ RateConstructed
    /\ Len(rate_log) = 4
    /\ \A i \in 1..4 : rate_log[i].key = "anonymous"
    /\ DeniedByQuota(rate_log[2])
    /\ FoundBlock(rate_log[3])
    /\ rate_log[3].time < rate_log[3].before.blocked_until["anonymous"]
    /\ \A n \in 1..Len(rate_log[3].before.request_history["anonymous"]) :
          rate_log[3].before.request_history["anonymous"][n]
              < rate_log[3].time - rate_limit.window_seconds
    /\ DeniedByBlock(rate_log[3])
    /\ FoundBlock(rate_log[4])
    /\ rate_log[4].time = rate_log[4].before.blocked_until["anonymous"]
    /\ rate_log[4].dec.action = "allow"

\* The key of e has no active block when e is checked.
NoActiveBlock(e) ==
    FoundBlock(e) => e.time >= e.before.blocked_until[e.key]

\* The earlier allowed checks of e's key with a timestamp >= cutoff, where
\* e is the i-th call.
AllowedSince(i, cutoff) ==
    {j \in 1..(i - 1) :
        /\ rate_log[j].key = rate_log[i].key
        /\ rate_log[j].dec.allowed
        /\ rate_log[j].time >= cutoff}

\* C22: a check of a key without an active block is allowed whenever fewer
\* than max_requests earlier allowed checks of the key have a timestamp
\* >= t - window_seconds; so with max_requests >= 1 a check made more than
\* window_seconds after the key's last allowed check is allowed.
C22_NoSpuriousDenial ==
    RateConstructed =>
        \A i \in 1..Len(rate_log) :
           LET e == rate_log[i]
           IN  /\ (/\ NoActiveBlock(e)
                   /\ Cardinality(AllowedSince(i, e.time - rate_limit.window_seconds))
                          < rate_limit.max_requests) =>
                     e.dec.action = "allow" /\ e.dec.allowed
               /\ (/\ NoActiveBlock(e)
                   /\ rate_limit.max_requests >= 1
                   /\ AllowedSince(i, e.time - rate_limit.window_seconds) = {}) =>
                     e.dec.action = "allow"

\* A never-blocked key with max_requests = 1 is allowed again once its
\* window has passed.
C22_Witness ==
    /\ RateConstructed
    /\ rate_limit.max_requests = 1
    /\ Len(rate_log) = 2
    /\ rate_log[1].key = rate_log[2].key
    /\ rate_log[1].dec.allowed
    /\ rate_log[2].time > rate_log[1].time + rate_limit.window_seconds
    /\ rate_limit.blocked_until = rate_log[1].before.blocked_until
    /\ rate_log[2].dec.action = "allow"

\* C28: a check denied because the key is still blocked leaves the guard
\* exactly as it was (no timestamp appended, nothing trimmed, blocked_until
\* not extended), so the block expires at the time first set however many
\* requests arrive meanwhile; the quota deny that sets the block does not
\* append its own timestamp: it leaves the timestamps it kept, all of them
\* recorded by earlier allowed checks.
C28_BlockedDenyFrame ==
    RateConstructed =>
        \A i \in 1..Len(rate_log) :
           LET e == rate_log[i]
               kept == SelectSeq(e.before.request_history[e.key],
                          LAMBDA t : t >= e.time - rate_limit.window_seconds)
           IN  /\ DeniedByBlock(e) =>
                     /\ e.after = e.before
                     /\ e.after.blocked_until[e.key] = e.before.blocked_until[e.key]
               /\ DeniedByQuota(e) =>
                     /\ e.after.request_history[e.key] = kept
                     /\ Len(e.after.request_history[e.key])
                            <= Len(e.before.request_history[e.key])
               /\ DeniedByQuota(e) =>
                     Cardinality({j \in 1..(i - 1) : rate_log[j].key = e.key
                                               /\ rate_log[j].dec.allowed
                                               /\ rate_log[j].time >= e.time - rate_limit.window_seconds})
                         = Len(e.after.request_history[e.key])

\* Two requests arrive during a block longer than the window: both are
\* denied, the second after every stored timestamp has left the window, and
\* neither changes the guard.
C28_Witness ==
    /\ RateConstructed
    /\ Len(rate_log) = 4
    /\ \A i \in 1..4 : rate_log[i].key = "anonymous"
    /\ DeniedByQuota(rate_log[2])
    /\ rate_log[2].after.request_history["anonymous"] = <<rate_log[1].time>>
    /\ DeniedByBlock(rate_log[3])
    /\ DeniedByBlock(rate_log[4])
    /\ rate_log[4].time > rate_log[1].time + rate_limit.window_seconds
    /\ rate_log[4].after = rate_log[2].after

\* More than max_requests checks of one key were allowed with timestamps in
\* one closed interval of length window_seconds.
OverQuota ==
    \E k \in RateKeys, t \in 0..(MaxTime + rate_limit.window_seconds) :
       Cardinality({n \in 1..Len(race.allowed) :
                      /\ race.allowed[n].key = k
                      /\ t - rate_limit.window_seconds <= race.allowed[n].time
                      /\ race.allowed[n].time <= t}) > rate_limit.max_requests

\* C27: with two unsynchronized threads, more than max_requests checks of a
\* key are allowed within one window only if some call ran its occupancy
\* test while another call for the same key stood between its own test and
\* its append; when no two calls interleave there, the quota holds.
C27_RaceNeedsInterleaving ==
    (RateConstructed /\ OverQuota) => race.overlapped

\* Two interleaved calls for one key were both allowed at max_requests = 1.
C27_Witness ==
    /\ RateConstructed
    /\ rate_limit.max_requests = 1
    /\ race.overlapped
    /\ Len(race.allowed) = 2
    /\ race.calls = 2
    /\ race.allowed[1].key = race.allowed[2].key
    /\ OverQuota

----------------------------------------------------------------------------
(* Further properties of SimilarityGuard *)

\* The i-th call stored this entry in the exact-hash store.
NewEntry(i) ==
    [k |-> Md5(sim_log[i].text),
     v |-> [audit_id |-> <<"ctx", i>>, timestamp |-> i,
            normalized_hash |-> Md5(normalize_text(sim_log[i].text)),
            user_role |-> NoRole, model |-> "None"]]

\* C23: the exact-hash store is always in insertion order; a storing call
\* that finds it at capacity removes exactly its first, earliest inserted
\* entry and appends its own, and a call below capacity only appends; a call
\* that matches an entry, exactly or as the best fuzzy match, does not move
\* or rewrite it.
C23_FifoEviction ==
    SimConstructed =>
        /\ \A n, m \in 1..Len(sim_guard.content_hashes) :
              n < m => sim_guard.content_hashes[n].v.timestamp
                           < sim_guard.content_hashes[m].v.timestamp
        /\ \A i \in 1..Len(sim_log) :
              LET e == sim_log[i]
                  old == e.before.content_hashes
                  new == e.after.content_hashes
              IN  /\ Stored(e) =>
                        new = IF Len(old) >= sim_guard.max_history_size
                              THEN Append(Tail(old), NewEntry(i))
                              ELSE Append(old, NewEntry(i))
                  /\ ~Stored(e) => new = old

\* max_history_size = 2: the first string was matched as an exact duplicate
\* after the second was stored, and is still the one evicted by the next
\* insertion.
C23_Witness ==
    /\ SimConstructed
    /\ sim_guard.max_history_size = 2
    /\ Len(sim_log) = 4
    /\ Stored(sim_log[1])
    /\ Stored(sim_log[2])
    /\ sim_log[3].text = sim_log[1].text
    /\ Reported(sim_log[3], "exact")
    /\ Stored(sim_log[4])
    /\ Keys(sim_guard.content_hashes) = {Md5(sim_log[2].text), Md5(sim_log[4].text)}
    /\ sim_guard.content_hashes[1].k = Md5(sim_log[2].text)

\* C24: the similarity of two normalized texts is 1 when both have no token
\* and 0 when exactly one has none; checked on every pair of a submission's
\* normalized text and a stored normalized text.
C24_EmptySetsSimilarity ==
    SimConstructed =>
        \A i \in 1..Len(sim_log) :
           LET normalized == normalize_text(sim_log[i].text)
               stored == sim_log[i].before.normalized_content
           IN  \A n \in 1..Len(stored) :
                  LET score == calculate_similarity(normalized, stored[n].v)
                  IN  /\ (Tokens(normalized) = {} /\ Tokens(stored[n].v) = {}) =>
                             score.num = score.den
                      /\ ((Tokens(normalized) = {}) # (Tokens(stored[n].v) = {})) =>
                             score.num = 0

\* C25: a call whose content hash is already in the exact-hash store leaves
\* the whole detector as it was; with max_history_size >= 1 every other call
\* returns after storing once: its entry, with its own audit id and
\* timestamp, is the last of the exact-hash store and occurs there once, its
\* normalized text is in the normalized store, and the exact-hash store has
\* grown by one entry or, at capacity, kept its size.
C25_ExactCheckFrame ==
    SimConstructed =>
        \A i \in 1..Len(sim_log) :
           LET e == sim_log[i]
               old == e.before.content_hashes
               new == e.after.content_hashes
               hit == Md5(e.text) \in Keys(old)
           IN  /\ hit => (Reported(e, "exact") /\ e.after = e.before)
               /\ (~hit /\ sim_guard.max_history_size >= 1) =>
                     /\ ~e.out.raised
                     /\ ~Reported(e, "exact")
                     /\ new # <<>>
                     /\ new[Len(new)] = NewEntry(i)
                     /\ Cardinality({n \in 1..Len(new) : new[n].k = Md5(e.text)}) = 1
                     /\ Len(new) = IF Len(old) >= sim_guard.max_history_size
                                   THEN Len(old) ELSE Len(old) + 1
                     /\ StoredAfterwards(e)

\* A string was stored, a near-duplicate of it was reported and stored, and
\* the repetition of the first left the detector unchanged.
C25_Witness ==
    /\ SimConstructed
    /\ Len(sim_log) = 3
    /\ Stored(sim_log[1])
    /\ Reported(sim_log[2], "fuzzy")
    /\ Len(sim_log[2].after.content_hashes) = 2
    /\ sim_log[3].text = sim_log[1].text
    /\ Reported(sim_log[3], "exact")
    /\ sim_log[3].after = sim_log[3].before

\* C30: when a storing call evicts the oldest exact-hash entry, the
\* normalized text stored with it leaves the normalized store too, unless a
\* surviving entry has the same normalized hash; so the match of a
\* near-duplicate detection is always content that is still in the
\* exact-hash store.
C30_EvictionRemovesPair ==
    SimConstructed =>
        \A i \in 1..Len(sim_log) :
           LET e == sim_log[i]
               old == e.before.content_hashes
               new == e.after.content_hashes
           IN  /\ (/\ Stored(e)
                   /\ sim_guard.max_history_size >= 1
                   /\ Len(old) >= sim_guard.max_history_size) =>
                     LET paired == old[1].v.normalized_hash
                     IN  (\A n \in 1..Len(new) : new[n].v.normalized_hash # paired) =>
                            paired \notin Keys(e.after.normalized_content)
               /\ Reported(e, "fuzzy") =>
                     \E n \in 1..Len(old) :
                        old[n].v.normalized_hash = e.out.dec.evidence["similar_hash"]

----------------------------------------------------------------------------
(* Further properties of the pipeline *)

\* The number of calls made so far that returned transform.
TransformCalls(f) ==
    Cardinality({k \in 1..Len(f.calls) : ReturnedAction(f, k) = "transform"})

\* The left-to-right merge of the evidence of the first k calls, written
\* out key by key: the value of a key is that of the last call holding it.
MergedEvidence(f, k) ==
    LET holders(key) == {j \in 1..k : key \in DOMAIN f.calls[j].out.dec.evidence}
        last(key) == CHOOSE j \in holders(key) : \A h \in holders(key) : h <= j
    IN  [key \in UNION {DOMAIN f.calls[j].out.dec.evidence : j \in 1..k} |->
            f.calls[last(key)].out.dec.evidence[key]]

\* C26 as stated: every early-returned deny or retry and every final
\* transform carries the concatenation, in guard order, of the reasons of
\* all guards invoked (with the synthesized fault reasons), and every
\* returned Decision carries the left-to-right merge of the evidence of the
\* guards that returned a Decision.
C26_Accumulation ==
    \A f \in Frames :
        f.pc = "returned" =>
            /\ (f.early \/ f.result.action = "transform") =>
                  f.result.reasons = ReasonsOf(f, Len(f.calls))
            /\ f.result.evidence = MergedEvidence(f, Len(f.calls))

\* C26 amended: as stated, except that a final transform for which no reason
\* was collected carries the single synthesized reason "Applied N
\* transformation(s)", N being the number of guards that transformed.
C26_AccumulationOrSummary ==
    \A f \in Frames :
        f.pc = "returned" =>
            /\ f.early =>
                  /\ f.result.action \in {"deny", "retry"}
                  /\ f.result.reasons = ReasonsOf(f, Len(f.calls))
            /\ (~f.early /\ f.result.action = "transform") =>
                  f.result.reasons =
                      IF ReasonsOf(f, Len(f.calls)) # <<>>
                      THEN ReasonsOf(f, Len(f.calls))
                      ELSE <<[tag |-> "Applied transformation(s)", guard |-> 0,
                              msg |-> "", n |-> TransformCalls(f)]>>
            /\ f.result.evidence = MergedEvidence(f, Len(f.calls))

\* Without fail_fast a deny and then a transform: the final transform
\* carries both guards' reasons in order and the second guard's value of
\* the evidence key both wrote.
C26_Witness ==
    /\ ~fail_fast
    /\ validate.pc = "returned"
    /\ Len(validate.calls) = 2
    /\ ReturnedAction(validate, 1) = "deny"
    /\ ReturnedAction(validate, 2) = "transform"
    /\ validate.result.action = "transform"
    /\ validate.result.reasons =
           validate.calls[1].out.dec.reasons \o validate.calls[2].out.dec.reasons
    /\ Len(validate.result.reasons) = 2
    /\ "guard" \in DOMAIN validate.result.evidence
    /\ validate.result.evidence["guard"] = 2

\* C29: a returned Decision with action allow has no reasons and carries the
\* merged evidence; a call that runs past the last guard when no guard
\* transformed returns such an allow, whatever reasons the denying, retrying
\* or faulting guards contributed.
C29_AllowDropsReasons ==
    \A f \in Frames :
        f.pc = "returned" =>
            /\ f.result.action = "allow" =>
                  /\ f.result.reasons = <<>>
                  /\ f.result.allowed
                  /\ f.result.evidence = MergedEvidence(f, Len(f.calls))
            /\ (~f.early /\ TransformCalls(f) = 0) =>
                  /\ f.result.action = "allow"
                  /\ f.result.reasons = <<>>

\* Without fail_fast and with faults skipped, a deny and a fault: reasons
\* were collected and the allow that is returned has none.
C29_Witness ==
    /\ ~fail_fast
    /\ avalidate.pc = "returned"
    /\ Len(avalidate.calls) = 2
    /\ ReturnedAction(avalidate, 1) = "deny"
    /\ ReturnedAction(avalidate, 2) = "raise"
    /\ Len(ReasonsOf(avalidate, 2)) = 2
    /\ avalidate.result.action = "allow"
    /\ avalidate.result.reasons = <<>>
    /\ "guard" \in DOMAIN avalidate.result.evidence

====
